---- MODULE Spec2Model ----
(***************************************************************************)
(* A model of the execution engine of the orchestrator:                    *)
(*   src/app/runtime/executor.py   _validate_graph, _eval_cond,            *)
(*                                 Executor.execute and its run_node tasks *)
(*   src/app/main.py               the cancel flag and the run status      *)
(*                                                                         *)
(* The engine is single-threaded asyncio.  A step of the model is the code *)
(* that one task runs between two points where it may be suspended (an     *)
(* await of the event sink, of the semaphore, of the agent call, of the    *)
(* backoff sleep, of asyncio.wait).  Steps of different tasks interleave   *)
(* in any order.                                                           *)
(***************************************************************************)
EXTENDS Integers, Sequences, FiniteSets, TLC

VARIABLES
    graph,            \* the GraphSpec handed to execute (nodes, edges, options)
    config,           \* config.execution, the engine policy
    verdict,          \* what _validate_graph did: "unset", "ok" or the ValueError
    exec,             \* position of the coordinator, Executor.execute
    indeg,            \* execute's indeg dict (empty before it is built)
    ready,            \* execute's ready list (empty before it is built)
    outputs,          \* execute's outputs dict
    finished_nodes,   \* execute's finished_nodes counter
    sem,              \* value of the asyncio.Semaphore (0 before it is built)
    running,          \* execute's running set
    tasks,            \* keys of execute's tasks dict
    pc,               \* position of the run_node task of each node id
    attempt,          \* run_node's attempt counter of each node id
    events,           \* the events list that _append extends, as the
                      \* subsequence of it that concerns each node id
    cancel_event,     \* ctrl.cancel_event.is_set()
    launches,         \* how many times create_task(run_node(nid)) was called
    result,           \* what execute returned
    status,           \* RUNS[rid]["status"]
    bg,               \* position of the _run_background task
    queue,            \* ctrl.queue, what the live subscriber is sent: the
                      \* events of each node id and, under "run", the rest
    stored,           \* the events table that append_event fills, likewise
    tool_map,         \* ToolRegistry._map, name -> handler
    agent_map,        \* AgentRegistry._map, name -> handler
    last_call,        \* the last call made on a registry, with its exception
    ctx_of,           \* run_node's ctx dict of each node id (empty before it
                      \* is built)
    retries,          \* execute's local retries, read once when execute
                      \* starts (0 before)
    slept,            \* the delays each run_node has passed to
                      \* asyncio.sleep(backoff), in order
    backoff,          \* run_node's local backoff of each node id (0 before it
                      \* is computed)
    appending,        \* the node ids whose emit_with_run_id has put its event
                      \* on the queue and awaits append_event
    sub,              \* the reader of ctrl.queue (event_gen of the stream):
                      \* "off" when the run is one that no client streams,
                      \* else "none" (not started), "open", "ended"
    fifo              \* the keys of the entries of ctrl.queue in the order
                      \* they were put, kept for the runs a client may stream

vars == <<graph, config, verdict, exec, indeg, ready, outputs, finished_nodes,
          sem, running, tasks, pc, attempt, events, cancel_event, launches,
          result, status, bg, queue, stored, tool_map, agent_map, last_call,
          ctx_of, retries, slept, backoff, appending, sub, fifo>>

(***************************************************************************)
(* Bounds of the model.                                                    *)
(***************************************************************************)
MaxRetries == 1
MaxAttempts == 3
MaxConcurrency == 2
MaxNodes == 3
MaxEdges == 3

Ids == {"A", "B", "C", "D", "E"}

Min(a, b) == IF a <= b THEN a ELSE b
Max(a, b) == IF a >= b THEN a ELSE b

Last(s) == s[Len(s)]
Front(s) == SubSeq(s, 1, Len(s) - 1)

RECURSIVE SeqCount(_, _)
SeqCount(s, x) ==
    IF s = <<>> THEN 0
    ELSE (IF Head(s) = x THEN 1 ELSE 0) + SeqCount(Tail(s), x)

(***************************************************************************)
(* Values of context and output records are tagged: None, an int, a str    *)
(* or a list (a str and a list are sequences of small integers).           *)
(***************************************************************************)
NoneVal == [t |-> "none", v |-> <<>>]
IntVal(i) == [t |-> "int", v |-> <<i>>]
StrVal(s) == [t |-> "str", v |-> s]
ListVal(s) == [t |-> "list", v |-> s]

\* dict.get(key): the value, or None when the key is absent
Get(d, k) == IF k \in DOMAIN d THEN d[k] ELSE NoneVal

EmptyDict == <<>>

(***************************************************************************)
(* NodeSpec, EdgeSpec, GraphSpec.                                          *)
(***************************************************************************)
\* an Optional[int] field that is None, or a key that a dict lacks; a value
\* that is given is held as <<value>>
NoOption == <<>>

\* retries and timeout_sec default to None
NodeSpec(id, type, optional) ==
    [id |-> id, type |-> type, optional |-> optional,
     retries |-> NoOption, timeout_sec |-> NoOption]

\* e.cond is None: `e.cond or {}` is the empty condition
NoCond == [absent |-> TRUE]
Cond(var, op, value) == [var |-> var, op |-> op, value |-> value]

EdgeSpec(from, to, map, cond) == [from |-> from, to |-> to, map |-> map, cond |-> cond]

NodeIdSeq(g) == [i \in DOMAIN g.nodes |-> g.nodes[i].id]
NodeIdSet(g) == {g.nodes[i].id : i \in DOMAIN g.nodes}

NodeOf(g, nid) == g.nodes[CHOOSE i \in DOMAIN g.nodes : g.nodes[i].id = nid]

\* indeg = {n.id: 0}; for e in graph.edges: indeg[e.to] += 1
InitialIndeg(g) ==
    [n \in NodeIdSet(g) |->
        Cardinality({i \in DOMAIN g.edges : g.edges[i].to = n})]

\* children[nid]: the targets of nid's edges, in declaration order, one entry
\* per edge
RECURSIVE ChildrenFrom(_, _, _)
ChildrenFrom(g, nid, i) ==
    IF i > Len(g.edges) THEN <<>>
    ELSE (IF g.edges[i].from = nid THEN <<g.edges[i].to>> ELSE <<>>)
         \o ChildrenFrom(g, nid, i + 1)

Children(g, nid) == ChildrenFrom(g, nid, 1)

\* [nid for nid, d in indeg.items() if d == 0], in the order of graph.nodes
RootsOf(g, ind) ==
    LET Zero(nid) == ind[nid] = 0
    IN SelectSeq(NodeIdSeq(g), Zero)

(***************************************************************************)
(* _validate_graph: duplicate ids, unknown edge endpoints, then Kahn's     *)
(* algorithm with a LIFO work list.                                        *)
(***************************************************************************)
\* (a variant that visits each distinct child once, however many edges lead
\* to it)
RECURSIVE KahnChildrenOncePerChild(_, _, _)
KahnChildrenOncePerChild(cs, q, ind) ==
    IF cs = <<>> THEN [q |-> q, indeg |-> ind]
    ELSE LET c == Head(cs)
             NotC(x) == x # c
             ind2 == [ind EXCEPT ![c] = @ - 1]
         IN KahnChildrenOncePerChild(SelectSeq(Tail(cs), NotC),
                                     IF ind2[c] = 0 THEN Append(q, c) ELSE q,
                                     ind2)

RECURSIVE KahnChildren(_, _, _)
KahnChildren(cs, q, ind) ==
    IF cs = <<>> THEN [q |-> q, indeg |-> ind]
    ELSE LET c == Head(cs)
             ind2 == [ind EXCEPT ![c] = @ - 1]
         IN KahnChildren(Tail(cs),
                         IF ind2[c] = 0 THEN Append(q, c) ELSE q,
                         ind2)

RECURSIVE KahnVisited(_, _, _, _)
KahnVisited(g, q, ind, visited) ==
    IF q = <<>> THEN visited
    ELSE LET nid == Last(q)
             r == KahnChildren(Children(g, nid), Front(q), ind)
         IN KahnVisited(g, r.q, r.indeg, visited + 1)

\* the first edge with an endpoint that names no node, 0 when there is none
FirstBadEdge(g) ==
    LET bad == {i \in DOMAIN g.edges :
                    \/ g.edges[i].from \notin NodeIdSet(g)
                    \/ g.edges[i].to \notin NodeIdSet(g)}
    IN IF bad = {} THEN 0 ELSE CHOOSE i \in bad : \A j \in bad : i <= j

ValidateGraphSkipsCycles(g) ==
    IF Cardinality(NodeIdSet(g)) # Len(g.nodes) THEN "Duplicate node.id detected"
    ELSE IF FirstBadEdge(g) # 0
         THEN IF g.edges[FirstBadEdge(g)].from \notin NodeIdSet(g)
              THEN "Edge.from references unknown node: " \o g.edges[FirstBadEdge(g)].from
              ELSE "Edge.to references unknown node: " \o g.edges[FirstBadEdge(g)].to
         ELSE "ok"

ValidateGraph(g) ==
    IF Cardinality(NodeIdSet(g)) # Len(g.nodes) THEN "Duplicate node.id detected"
    ELSE IF FirstBadEdge(g) # 0
         THEN IF g.edges[FirstBadEdge(g)].from \notin NodeIdSet(g)
              THEN "Edge.from references unknown node: " \o g.edges[FirstBadEdge(g)].from
              ELSE "Edge.to references unknown node: " \o g.edges[FirstBadEdge(g)].to
         ELSE IF KahnVisited(g, RootsOf(g, InitialIndeg(g)), InitialIndeg(g), 0)
                     # Len(g.nodes)
              THEN "Cycle detected in graph (DAG only)"
              ELSE "ok"

(***************************************************************************)
(* _eval_cond.  An empty condition is true; an unknown operator and any    *)
(* TypeError raised by a comparison are false.                             *)
(***************************************************************************)
RECURSIVE SeqLess(_, _)
SeqLess(a, b) ==
    IF b = <<>> THEN FALSE
    ELSE IF a = <<>> THEN TRUE
    ELSE IF Head(a) < Head(b) THEN TRUE
    ELSE IF Head(a) > Head(b) THEN FALSE
    ELSE SeqLess(Tail(a), Tail(b))

\* Python orders int with int, str with str, list with list; any other pair
\* raises TypeError
Orderable(l, r) == l.t = r.t /\ l.t \in {"int", "str", "list"}

IsSubstring(s, t) ==
    \E i \in 0..(Len(t) - Len(s)) : SubSeq(t, i + 1, i + Len(s)) = s

\* val in left, for a str or a list on the left (a list holds ints)
PyIn(val, left) ==
    IF left.t = "str" THEN val.t = "str" /\ IsSubstring(val.v, left.v)
    ELSE val.t = "int" /\ \E i \in DOMAIN left.v : <<left.v[i]>> = val.v

\* cond["var"] given as a JSON list, which ctx.get cannot hash
ListVar == "<list>"

\* cond has no "op" key: cond.get("op") is None
AbsentOp == "<absent>"

\* left = ctx.get(var), before the try: TypeError when var is not hashable
CondRaises(cond) == cond # NoCond /\ cond.var = ListVar

EvalCond(cond, ctx) ==
    IF cond = NoCond THEN TRUE
    ELSE LET left == Get(ctx, cond.var)
             val == cond.value
         IN CASE cond.op = "==" -> left = val
              [] cond.op = "!=" -> left # val
              [] cond.op = ">" -> Orderable(left, val) /\ SeqLess(val.v, left.v)
              [] cond.op = ">=" -> Orderable(left, val) /\ ~SeqLess(left.v, val.v)
              [] cond.op = "<" -> Orderable(left, val) /\ SeqLess(left.v, val.v)
              [] cond.op = "<=" -> Orderable(left, val) /\ ~SeqLess(val.v, left.v)
              [] cond.op = "contains" ->
                    left.t \in {"str", "list"} /\ PyIn(val, left)
              [] OTHER -> FALSE

\* {dst_key: src.get(src_key) for dst_key, src_key in e.map.items()}
Project(src, map) == [dst \in DOMAIN map |-> Get(src, map[dst])]

(***************************************************************************)
(* The tail of run_node: activation of the outgoing edges of nid.          *)
(***************************************************************************)
\* (a variant that takes every edge as enabled)
EdgeEnabledWithoutCond(g, outs, nid, c) ==
    \E i \in DOMAIN g.edges : g.edges[i].from = nid /\ g.edges[i].to = c

\* some edge nid -> c has a condition that holds of nid's output
EdgeEnabled(g, outs, nid, c) ==
    \E i \in DOMAIN g.edges :
        /\ g.edges[i].from = nid
        /\ g.edges[i].to = c
        /\ EvalCond(g.edges[i].cond,
                    Project(IF nid \in DOMAIN outs THEN outs[nid] ELSE EmptyDict,
                            g.edges[i].map))

\* the evaluation of the edges nid -> c, in declaration order up to the first
\* enabled one, reaches a condition that raises
ChildRaises(g, outs, nid, c) ==
    \E i \in DOMAIN g.edges :
        /\ g.edges[i].from = nid
        /\ g.edges[i].to = c
        /\ CondRaises(g.edges[i].cond)
        /\ \A j \in 1..(i - 1) :
              (g.edges[j].from = nid /\ g.edges[j].to = c) =>
                  ~EvalCond(g.edges[j].cond,
                            Project(IF nid \in DOMAIN outs THEN outs[nid] ELSE EmptyDict,
                                    g.edges[j].map))

\* the children that `for c in children[nid]` handles before one raises
RECURSIVE ChildrenBeforeRaise(_, _, _, _)
ChildrenBeforeRaise(g, outs, nid, cs) ==
    IF cs = <<>> \/ ChildRaises(g, outs, nid, Head(cs)) THEN <<>>
    ELSE <<Head(cs)>> \o ChildrenBeforeRaise(g, outs, nid, Tail(cs))

ActivationRaises(g, outs, nid) ==
    \E i \in DOMAIN Children(g, nid) : ChildRaises(g, outs, nid, Children(g, nid)[i])

RECURSIVE ActivateEdgesNoZeroTest(_, _, _, _, _, _)
ActivateEdgesNoZeroTest(g, outs, nid, cs, ind, rdy) ==
    IF cs = <<>> THEN [indeg |-> ind, ready |-> rdy]
    ELSE LET c == Head(cs)
         IN IF ~EdgeEnabled(g, outs, nid, c)
            THEN ActivateEdgesNoZeroTest(g, outs, nid, Tail(cs), ind, rdy)
            ELSE ActivateEdgesNoZeroTest(g, outs, nid, Tail(cs),
                                         [ind EXCEPT ![c] = @ - 1], Append(rdy, c))

RECURSIVE ActivateEdges(_, _, _, _, _, _)
ActivateEdges(g, outs, nid, cs, ind, rdy) ==
    IF cs = <<>> THEN [indeg |-> ind, ready |-> rdy]
    ELSE LET c == Head(cs)
         IN IF ~EdgeEnabled(g, outs, nid, c)
            THEN ActivateEdges(g, outs, nid, Tail(cs), ind, rdy)
            ELSE LET ind2 == [ind EXCEPT ![c] = @ - 1]
                 IN ActivateEdges(g, outs, nid, Tail(cs), ind2,
                                  IF ind2[c] = 0 THEN Append(rdy, c) ELSE rdy)

(***************************************************************************)
(* Events.  progress = round(100 * finished_nodes / max(1, total_nodes)),  *)
(* Python's round: halves go to the even neighbour.                        *)
(***************************************************************************)
PyRound(num, den) ==
    LET q == num \div den
        r == num % den
    IN IF 2 * r < den THEN q
       ELSE IF 2 * r > den THEN q + 1
       ELSE IF q % 2 = 0 THEN q ELSE q + 1

Progress(g, finished) == PyRound(100 * finished, Max(1, Len(g.nodes)))

StartEvt(nid, k) == [msg |-> "node.start", nid |-> nid, attempt |-> k]
RetryEvt(nid) == [msg |-> "node.retry", nid |-> nid]
DoneEvt(nid, p) == [msg |-> "node.done", nid |-> nid, progress |-> p]
FailEvt(nid) == [msg |-> "node.fail", nid |-> nid]
FailOptEvt(nid, p) == [msg |-> "node.fail(optional)", nid |-> nid, progress |-> p]

\* how many events of one kind the list holds for a node
EvtCount(evs, kind, nid) ==
    Cardinality({i \in DOMAIN evs[nid] : evs[nid][i].msg = kind})

(***************************************************************************)
(* The inputs of a run: the graph, its options, the engine policy and what *)
(* the agents may return.                                                  *)
(***************************************************************************)
StatusMap == [status |-> "status"]
TextMap == [text |-> "body"]

\* The agents a run may find in the Agent Registry, by name: the keys of
\* input_schema and of output_schema, required_tools, and whether a call of
\* run may raise or time out.  agent.fetch, agent.analyze and agent.chart are
\* the classes of plugins/agents.py (a call of theirs awaits a tool or a
\* sleep, so it may time out; the fetch may also fail).  The others are agents
\* registered by the caller: they return without awaiting; agent.any and
\* agent.text may raise, agent.partial may return a record that lacks the key
\* "body" of its output_schema, agent.needs requires a tool nobody registered.
OkOutput == [status |-> IntVal(200), body |-> StrVal(<<1>>)]
AgentOutputs == {OkOutput, [status |-> IntVal(500)]}

\* FetchOut(body, status).model_dump() for the answers of the http_fetcher
FetchOutputs == {OkOutput, [status |-> IntVal(500), body |-> StrVal(<<1>>)]}

\* the values a condition is tried on, and the records of agent.values: the
\* key "x" with each of them, or no key "x"
CondValues == {NoneVal, IntVal(1), IntVal(2), StrVal(<<1>>), StrVal(<<1, 2>>), ListVal(<<1>>)}
ValueOutputs == {[x |-> v] : v \in CondValues} \cup {[y |-> IntVal(1)]}

PluginAgents == {"agent.fetch", "agent.analyze", "agent.chart"}

Agents ==
    [a \in PluginAgents \cup {"agent.any", "agent.text", "agent.sure", "agent.partial",
                              "agent.needs", "agent.values", "agent.echo"} |->
        [returns |-> CASE a = "agent.fetch" -> FetchOutputs
                       [] a \in {"agent.any", "agent.partial"} -> AgentOutputs
                       [] a = "agent.values" -> ValueOutputs
                       [] OTHER -> {OkOutput},
         raises |-> a \in PluginAgents \cup {"agent.any", "agent.text", "agent.needs"},
         input_schema |-> CASE a = "agent.analyze" -> {"text"}
                            [] a = "agent.chart" -> {"series"}
                            [] OTHER -> {},
         output_schema |-> CASE a \in {"agent.fetch", "agent.text", "agent.partial"}
                                    -> {"body", "status"}
                             [] a = "agent.analyze" -> {"insights"}
                             [] a = "agent.chart" -> {"chart_url", "points"}
                             [] a \in {"agent.values", "agent.echo"} -> {}
                             [] OTHER -> {"status"},
         required_tools |-> CASE a = "agent.fetch" -> {"http_fetcher"}
                              [] a = "agent.chart" -> {"chart_generator"}
                              [] a = "agent.needs" -> {"tool.absent"}
                              [] OTHER -> {}]]

\* the Tool Registry after _bootstrap_plugins
ToolRegistry == {"http_fetcher", "chart_generator"}

\* _check_keys(data, schema): no key of the schema is missing from data
CheckKeys(data, schema) == schema \subseteq DOMAIN data

\* has(name) of a registry, on its _map
Has(map, name) == name \in DOMAIN map

\* self.agents.get(node.type): the agent registered under the type of the node
AgentOf(g, nid) == Agents[agent_map[NodeOf(g, nid).type]]

\* text.count("AI"), the letters A and I being the characters 1 and 2
RECURSIVE CountAI(_)
CountAI(text) ==
    IF Len(text) < 2 THEN 0
    ELSE IF text[1] = 1 /\ text[2] = 2 THEN 1 + CountAI(SubSeq(text, 3, Len(text)))
    ELSE CountAI(Tail(text))

\* the chart_url of ChartGenerator.invoke, "s3://mock/chart.png": 19 characters
\* with no "AI" among them (the character 3 stands for each)
ChartUrl == StrVal([i \in 1..19 |-> 3])

\* context.get(key, default)
GetOr(d, k, default) == IF k \in DOMAIN d THEN d[k] ELSE default

\* The records agent.run(ctx, ...) may return.  AnalyzeAgent validates
\* ctx.get("text", "") as a str and returns the insights [len(text),
\* text.count("AI"), 42]; ChartAgent validates ctx.get("series", []) as a list
\* of int and returns the url and the number of points; a value that fails the
\* validation makes run raise (no record).  agent.echo returns its context.
Returns(g, nid, c) ==
    CASE agent_map[NodeOf(g, nid).type] = "agent.echo" -> {c}
      [] agent_map[NodeOf(g, nid).type] = "agent.analyze" ->
            LET text == GetOr(c, "text", StrVal(<<>>))
            IN IF text.t = "str"
               THEN {[insights |-> ListVal(<<Len(text.v), CountAI(text.v), 42>>)]}
               ELSE {}
      [] agent_map[NodeOf(g, nid).type] = "agent.chart" ->
            LET series == GetOr(c, "series", ListVal(<<>>))
            IN IF series.t = "list"
               THEN {[chart_url |-> ChartUrl, points |-> IntVal(Len(series.v))]}
               ELSE {}
      [] OTHER -> AgentOf(g, nid).returns

\* a graph before its optional flags are chosen: <<id, type>> per node
Shape(nodes, edges) == [nodes |-> nodes, edges |-> edges]

GSingle == Shape(<<<<"A", "agent.text">>>>, <<>>)
GChain == Shape(<<<<"A", "agent.any">>, <<"B", "agent.text">>>>,
                <<EdgeSpec("A", "B", TextMap, NoCond)>>)
GJoin == Shape(<<<<"A", "agent.text">>, <<"B", "agent.text">>, <<"C", "agent.text">>>>,
               <<EdgeSpec("A", "C", EmptyDict, NoCond),
                 EdgeSpec("B", "C", EmptyDict, NoCond)>>)
GFork == Shape(<<<<"A", "agent.any">>, <<"B", "agent.text">>, <<"C", "agent.text">>>>,
               <<EdgeSpec("A", "B", StatusMap, Cond("status", "==", IntVal(200))),
                 EdgeSpec("A", "C", StatusMap, Cond("status", "!=", IntVal(200)))>>)
GParallel == Shape(<<<<"A", "agent.any">>, <<"B", "agent.text">>>>,
                   <<EdgeSpec("A", "B", StatusMap, Cond("status", "==", IntVal(200))),
                     EdgeSpec("A", "B", StatusMap, Cond("status", ">", IntVal(200)))>>)
GCycle == Shape(<<<<"A", "agent.text">>, <<"B", "agent.text">>, <<"C", "agent.text">>>>,
                <<EdgeSpec("A", "B", EmptyDict, NoCond),
                  EdgeSpec("B", "C", EmptyDict, NoCond),
                  EdgeSpec("C", "A", EmptyDict, NoCond)>>)
GDuplicate == Shape(<<<<"A", "agent.text">>, <<"A", "agent.text">>>>, <<>>)
GUnknown == Shape(<<<<"A", "agent.text">>>>, <<EdgeSpec("A", "B", EmptyDict, NoCond)>>)
GFetch == Shape(<<<<"A", "agent.fetch">>>>, <<>>)
\* fetch -> analyze with the map {text: body}
GDemo == Shape(<<<<"A", "agent.fetch">>, <<"B", "agent.analyze">>>>,
               <<EdgeSpec("A", "B", TextMap, NoCond)>>)
\* a list -> chart -> analyze: the chart is drawn from the list A returns
\* under "x" and its url is the text B hands to C
GChart == Shape(<<<<"A", "agent.values">>, <<"B", "agent.chart">>, <<"C", "agent.analyze">>>>,
                <<EdgeSpec("A", "B", [series |-> "x"], NoCond),
                  EdgeSpec("B", "C", [text |-> "chart_url"], NoCond)>>)
GPartial == Shape(<<<<"A", "agent.partial">>>>, <<>>)
GNeeds == Shape(<<<<"A", "agent.needs">>>>, <<>>)
GNoInput == Shape(<<<<"A", "agent.analyze">>>>, <<>>)
GFeed == Shape(<<<<"A", "agent.sure">>, <<"B", "agent.analyze">>>>,
               <<EdgeSpec("A", "B", TextMap, NoCond)>>)
GSure == Shape(<<<<"A", "agent.sure">>, <<"B", "agent.sure">>>>,
               <<EdgeSpec("A", "B", EmptyDict, NoCond)>>)
GFive == Shape(<<<<"A", "agent.text">>, <<"B", "agent.sure">>, <<"C", "agent.sure">>,
                 <<"D", "agent.sure">>, <<"E", "agent.sure">>>>, <<>>)

Shapes == {GSingle, GChain, GJoin, GFork, GParallel, GCycle, GDuplicate, GUnknown,
           GFetch, GPartial, GNeeds, GNoInput, GFeed}

\* graph.options: a dict that holds max_retries and concurrency, or lacks
\* either; a key that is given holds <<value>>, a missing key NoOption
RECURSIVE Pow(_, _)
Pow(b, e) == IF e = 0 THEN 1 ELSE b * Pow(b, e - 1)

\* config.execution with the default retry_backoff_factor and retry_max_delay
ExecutionConfig(r, dc, mc) ==
    [max_retries |-> r, default_concurrency |-> dc, max_concurrency |-> mc,
     retry_backoff_factor |-> 2, retry_max_delay |-> 60]

\* config.execution.  max_concurrency >= default_concurrency is enforced by
\* ExecutionConfig.validate_max_concurrency.  A default that the options
\* override is read by nobody and is drawn as its least value; a default that
\* is read is drawn as the largest retry count or the smallest concurrency.
RunInputs ==
    {[options |-> [max_retries |-> r, concurrency |-> c],
      config |-> ExecutionConfig(cr, 1, cm)] :
        r \in {NoOption} \cup {<<x>> : x \in 0..MaxRetries},
        c \in {NoOption} \cup {<<x>> : x \in 1..MaxConcurrency},
        cr \in {0, MaxRetries},
        cm \in 1..MaxConcurrency}

Relevant(in) ==
    /\ in.options.max_retries # NoOption <=> in.config.max_retries = 0
    /\ in.options.concurrency = NoOption =>
            in.config.max_concurrency = MaxConcurrency

\* options.get(key, default)
OptGet(opt, default) == IF opt = NoOption THEN default ELSE opt[1]

GraphSpec(shape, opt, options) ==
    [nodes |-> [i \in DOMAIN shape.nodes |->
                    NodeSpec(shape.nodes[i][1], shape.nodes[i][2],
                             shape.nodes[i][1] \in opt)],
     edges |-> shape.edges,
     options |-> options,
     sinks |-> <<>>]

(***************************************************************************)
(* State before execute is called.                                         *)
(***************************************************************************)
NoResult == [absent |-> TRUE]

NoCall == [op |-> "none", reg |-> "", name |-> "", handler |-> "", exc |-> ""]

\* a registry that holds, under each of the names, the plugin object of that
\* name (register stores the handler under handler.name)
Bootstrapped(names) == [n \in names |-> n]

InitExecute(g, cfg) ==
    /\ graph = g
    /\ config = cfg
    /\ verdict = "unset"
    /\ exec = "init"
    /\ indeg = EmptyDict
    /\ ready = <<>>
    /\ outputs = EmptyDict
    /\ finished_nodes = 0
    /\ sem = 0
    /\ running = {}
    /\ tasks = {}
    /\ pc = [n \in Ids |-> "idle"]
    /\ attempt = [n \in Ids |-> 0]
    /\ events = [n \in Ids |-> <<>>]
    /\ cancel_event = FALSE
    /\ launches = [n \in Ids |-> 0]
    /\ result = NoResult
    /\ queue = [k \in Ids \cup {"run"} |-> <<>>]
    /\ stored = [k \in Ids \cup {"run"} |-> <<>>]
    /\ ctx_of = [n \in Ids |-> EmptyDict]
    /\ retries = 0
    /\ slept = [n \in Ids |-> <<>>]
    /\ backoff = [n \in Ids |-> 0]
    /\ appending = {}
    /\ fifo = <<>>

\* the registries of main.py: Executor.__init__ has bootstrapped them with the
\* plugins and nothing else is registered
Constructed ==
    /\ tool_map = Bootstrapped(ToolRegistry)
    /\ agent_map = Bootstrapped(PluginAgents)
    /\ last_call = NoCall

\* the registries of an Executor whose caller registered its own agents in the
\* AgentRegistry it passes: besides the plugins, the agents of the table
CallerRegistered ==
    /\ tool_map = Bootstrapped(ToolRegistry)
    /\ agent_map = Bootstrapped(DOMAIN Agents)
    /\ last_call = NoCall

\* execute has just been called, on an Executor of the caller
InitRun(g, cfg) ==
    /\ InitExecute(g, cfg)
    /\ CallerRegistered
    /\ sub = "off"
    /\ status = "RUNNING"
    /\ bg = "executing"

Init ==
    \E shape \in Shapes, in \in {i \in RunInputs : Relevant(i)} :
        \E opt \in SUBSET {shape.nodes[i][1] : i \in DOMAIN shape.nodes} :
            InitRun(GraphSpec(shape, opt, in.options), in.config)

(***************************************************************************)
(* Executor.execute, the coordinator.                                      *)
(***************************************************************************)
\* retries = int(graph.options.get("max_retries", config.max_retries))
Retries(g, cfg) == OptGet(g.options.max_retries, cfg.max_retries)

\* concurrency = min(int(graph.options.get("concurrency", default)), max)
ConcurrencyIgnoresEngineMax(g, cfg) ==
    OptGet(g.options.concurrency, cfg.default_concurrency)

Concurrency(g, cfg) ==
    Min(OptGet(g.options.concurrency, cfg.default_concurrency), cfg.max_concurrency)

\* while ready: nid = ready.pop(); skip it if it is in running, else create
\* its task and add it to running
RECURSIVE LaunchReady(_, _, _, _, _)
LaunchReady(rdy, run, tsk, pcs, lch) ==
    IF rdy = <<>>
    THEN [ready |-> rdy, running |-> run, tasks |-> tsk, pc |-> pcs, launches |-> lch]
    ELSE LET nid == Last(rdy)
         IN IF nid \in run
            THEN LaunchReady(Front(rdy), run, tsk, pcs, lch)
            ELSE LaunchReady(Front(rdy), run \cup {nid}, tsk \cup {nid},
                             [pcs EXCEPT ![nid] = "created"],
                             [lch EXCEPT ![nid] = @ + 1])

\* the value execute returns: when graph.sinks is not empty the outputs of the
\* sinks that have one, with the sinks; else all the outputs
\* (a variant that returns every output whatever graph.sinks is)
ResultIgnoresSinks(g, outs) == [outputs |-> outs]

Result(g, outs) ==
    IF g.sinks # <<>>
    THEN [outputs |-> [nid \in {g.sinks[i] : i \in DOMAIN g.sinks} \cap DOMAIN outs
                          |-> outs[nid]],
          sinks |-> g.sinks]
    ELSE [outputs |-> outs]

\* on_event(evt), awaited by _emit for the event it has just appended (if the
\* step emits one): emit_with_run_id puts it on the subscriber queue and
\* appends it to the events table
Emitters == {k \in Ids : Len(events'[k]) > Len(events[k])}

EmitWithRunId ==
    /\ queue' = [k \in DOMAIN queue |->
                    IF k \in Ids /\ Len(events'[k]) > Len(events[k])
                    THEN Append(queue[k], Last(events'[k])) ELSE queue[k]]
    /\ fifo' = IF sub = "off" \/ Emitters = {} THEN fifo
               ELSE Append(fifo, CHOOSE k \in Emitters : TRUE)
    /\ appending' = appending \cup Emitters
    /\ UNCHANGED stored

\* the step of a runner whose on_event(evt) raised: that event was put on the
\* queue (main.py 191) and append_event (192) failed before its commit; the
\* event the step itself emits, if any, is put on the queue in its turn
EmitAfterSinkRaise(n) ==
    /\ queue' = [k \in DOMAIN queue |->
                    IF k \in Ids /\ Len(events'[k]) > Len(events[k])
                    THEN Append(queue[k], Last(events'[k])) ELSE queue[k]]
    /\ fifo' = IF sub = "off" \/ Emitters = {} THEN fifo
               ELSE Append(fifo, CHOOSE k \in Emitters : TRUE)
    /\ appending' = IF Len(events'[n]) > Len(events[n])
                    THEN appending ELSE appending \ {n}
    /\ UNCHANGED stored

\* what execute and its tasks leave alone: the run record of main.py and the
\* registries, which are only read during a run
Elsewhere ==
    UNCHANGED <<status, bg, tool_map, agent_map, last_call, ctx_of, retries, slept, backoff,
                sub>>

\* backoff = min(factor * factor ** (attempt - 1), retry_max_delay)
Backoff(cfg, k) ==
    Min(cfg.retry_backoff_factor * Pow(cfg.retry_backoff_factor, k - 1),
        cfg.retry_max_delay)

\* the except branch of node n: with a retry left the delay is computed from
\* the config of that moment (lines 217-220), before node.retry is emitted
ExceptBranch(n) ==
    /\ backoff' = IF attempt[n] <= retries
                  THEN [backoff EXCEPT ![n] = Backoff(config, attempt[n])]
                  ELSE backoff
    /\ UNCHANGED <<status, bg, tool_map, agent_map, last_call, ctx_of, retries, slept, sub>>

\* execute returns or raises into _run_background, which sets the status of the
\* run and goes on to its await of save_run: in the try after a return (lines
\* 212-214), in an except block after an exception (218-220, 224-226, 230-232)
ExecuteReturns ==
    /\ status' = CASE exec' = "success" -> "SUCCESS"
                   [] exec' = "cancelled" -> "CANCELLED"
                   [] exec' \in {"failed", "invalid"} -> "FAILED"
                   [] OTHER -> status
    /\ bg' = CASE exec' = "success" -> "save_success"
               [] exec' \in {"cancelled", "failed", "invalid"} -> "save_handler"
               [] OTHER -> bg
    /\ UNCHANGED <<tool_map, agent_map, last_call, ctx_of, slept, backoff, sub>>

TaskDone(n) == pc[n] \in {"finished", "failed", "cancelled"}

\* one pass of `while ready or tasks` up to its await (or to the return)
Schedule(rdy, tsk) ==
    LET l == LaunchReady(rdy, running, tsk, pc, launches)
    IN /\ ready' = l.ready
       /\ running' = l.running
       /\ tasks' = l.tasks
       /\ pc' = l.pc
       /\ launches' = l.launches
       /\ exec' = IF l.tasks = {} THEN "success" ELSE "waiting"
       /\ result' = IF l.tasks = {} THEN Result(graph, outputs) ELSE result

\* execute is called: validation, the run state, the first pass of the loop
ExecuteStart ==
    /\ bg = "executing"
    /\ exec = "init"
    /\ verdict' = ValidateGraph(graph)
    /\ IF verdict' # "ok"
       THEN /\ exec' = "invalid"
            /\ UNCHANGED <<indeg, ready, outputs, finished_nodes, sem, running,
                           tasks, pc, launches, result, retries>>
       ELSE /\ indeg' = InitialIndeg(graph)
            /\ outputs' = EmptyDict
            /\ finished_nodes' = 0
            /\ retries' = Retries(graph, config)
            /\ sem' = Concurrency(graph, config)
            /\ Schedule(RootsOf(graph, InitialIndeg(graph)), {})
    /\ UNCHANGED <<graph, config, attempt, events, cancel_event>>
    /\ EmitWithRunId
    /\ ExecuteReturns

\* asyncio.wait returns with the tasks that are done; the first of them whose
\* result() raises ends execute (a set is examined in any order)
CoordinatorWake ==
    /\ exec = "waiting"
    /\ LET done == {n \in tasks : TaskDone(n)}
       IN /\ done # {}
          /\ IF \E d \in done : pc[d] # "finished"
             THEN /\ \E d \in done :
                        /\ pc[d] # "finished"
                        /\ exec' = pc[d]
                  /\ UNCHANGED <<ready, running, tasks, pc, launches, result>>
             ELSE Schedule(ready, tasks \ done)
    /\ UNCHANGED <<graph, config, verdict, indeg, outputs, finished_nodes, sem,
                   attempt, events, cancel_event, retries>>
    /\ EmitWithRunId
    /\ ExecuteReturns

(***************************************************************************)
(* run_node, the task of one node.                                         *)
(*                                                                         *)
(* The attempt counter and the events of a runner are recorded up to       *)
(* attempt MaxAttempts.  Under Spec no runner goes further.  Under         *)
(* LiveSpec a runner goes on, its counter stays at MaxAttempts + 1 ("more  *)
(* than MaxAttempts") and what it would append is left out.  The counter   *)
(* finished_nodes takes every increment, those of such a runner included,  *)
(* up to FinishedCap, which no run reaches while every runner is within    *)
(* MaxAttempts: FinishedCap stands for every count from FinishedCap on,    *)
(* and ProgressOver for the progress computed from such a count.           *)
(***************************************************************************)
Recorded(n) == attempt[n] <= MaxAttempts

\* _append(evt) for an event of node n
Emit(n, evt) == IF Recorded(n) THEN [events EXCEPT ![n] = Append(@, evt)] ELSE events

\* an attempt increments the counter at most twice (line 201, and line 234 when
\* the emit of node.done raises in an optional node)
FinishedCap == 2 * Len(graph.nodes) * MaxAttempts + 1

ProgressOver == 0 - 1

\* finished_nodes += 1
Finished == Min(finished_nodes + 1, FinishedCap)

\* progress = round(100 * finished_nodes / max(1, total_nodes)) after the
\* increment
ProgressNow ==
    IF Finished = FinishedCap THEN ProgressOver ELSE Progress(graph, Finished)

\* ctx: the outputs of the finished sources of nid's incoming edges, projected
\* through the maps in edge order (a later edge overwrites a key)
\* (a variant in which a key keeps the value of the first edge that wrote it)
RECURSIVE ContextFromFirstWins(_, _, _, _, _)
ContextFromFirstWins(g, outs, nid, i, ctx) ==
    IF i > Len(g.edges) THEN ctx
    ELSE LET e == g.edges[i]
         IN IF e.to = nid /\ e.from \in DOMAIN outs
            THEN LET new == Project(outs[e.from], e.map)
                 IN ContextFromFirstWins(g, outs, nid, i + 1,
                                [k \in DOMAIN ctx \cup DOMAIN new |->
                                    IF k \in DOMAIN ctx THEN ctx[k] ELSE new[k]])
            ELSE ContextFromFirstWins(g, outs, nid, i + 1, ctx)

RECURSIVE ContextFrom(_, _, _, _, _)
ContextFrom(g, outs, nid, i, ctx) ==
    IF i > Len(g.edges) THEN ctx
    ELSE LET e == g.edges[i]
         IN IF e.to = nid /\ e.from \in DOMAIN outs
            THEN LET new == Project(outs[e.from], e.map)
                 IN ContextFrom(g, outs, nid, i + 1,
                                [k \in DOMAIN ctx \cup DOMAIN new |->
                                    IF k \in DOMAIN new THEN new[k] ELSE ctx[k]])
            ELSE ContextFrom(g, outs, nid, i + 1, ctx)

Context(g, outs, nid) == ContextFrom(g, outs, nid, 1, EmptyDict)

\* run_node reaches the assembly of ctx: the agent is registered and so are
\* its required tools
CtxBuilt(g, nid) ==
    /\ Has(agent_map, NodeOf(g, nid).type)
    /\ \A t \in AgentOf(g, nid).required_tools : Has(tool_map, t)

\* what run_node raises before its attempt loop, "" when it raises nothing:
\* the type of the node is not a registered agent, a required tool is not
\* registered, or the context lacks an input key
Preflight(g, outs, nid) ==
    IF ~Has(agent_map, NodeOf(g, nid).type)
    THEN "agent not found"
    ELSE IF \E t \in AgentOf(g, nid).required_tools : ~Has(tool_map, t)
    THEN "missing required tool"
    ELSE IF ~CheckKeys(Context(g, outs, nid), AgentOf(g, nid).input_schema)
    THEN "input missing keys"
    ELSE ""

\* first step of the task: the cancel check, the tool and input checks, then
\* attempt 1 and its node.start
RunnerBeginNoCancelCheck(n) ==
    /\ pc[n] = "created"
    /\ IF Preflight(graph, outputs, n) # ""
       THEN /\ pc' = [pc EXCEPT ![n] = "failed"]
            /\ UNCHANGED <<attempt, events>>
       ELSE /\ attempt' = [attempt EXCEPT ![n] = 1]
            /\ events' = [events EXCEPT ![n] = Append(@, StartEvt(n, 1))]
            /\ pc' = [pc EXCEPT ![n] = "started"]
    /\ UNCHANGED <<graph, config, verdict, exec, indeg, ready, outputs,
                   finished_nodes, sem, running, tasks, cancel_event, launches>>
    /\ UNCHANGED result
    /\ EmitWithRunId
    /\ ctx_of' = IF CtxBuilt(graph, n)
                 THEN [ctx_of EXCEPT ![n] = Context(graph, outputs, n)]
                 ELSE ctx_of
    /\ UNCHANGED <<status, bg, tool_map, agent_map, last_call, retries, slept, backoff, sub>>

RunnerBegin(n) ==
    /\ pc[n] = "created"
    /\ IF cancel_event
       THEN /\ pc' = [pc EXCEPT ![n] = "cancelled"]
            /\ UNCHANGED <<attempt, events>>
       ELSE IF Preflight(graph, outputs, n) # ""
       THEN /\ pc' = [pc EXCEPT ![n] = "failed"]
            /\ UNCHANGED <<attempt, events>>
       ELSE /\ attempt' = [attempt EXCEPT ![n] = 1]
            /\ events' = [events EXCEPT ![n] = Append(@, StartEvt(n, 1))]
            /\ pc' = [pc EXCEPT ![n] = "started"]
    /\ UNCHANGED <<graph, config, verdict, exec, indeg, ready, outputs,
                   finished_nodes, sem, running, tasks, cancel_event, launches>>
    /\ UNCHANGED result
    /\ EmitWithRunId
    /\ ctx_of' = IF ~cancel_event /\ CtxBuilt(graph, n)
                 THEN [ctx_of EXCEPT ![n] = Context(graph, outputs, n)]
                 ELSE ctx_of
    /\ UNCHANGED <<status, bg, tool_map, agent_map, last_call, retries, slept, backoff, sub>>

\* async with sem: the agent call starts once a slot is free
Acquire(n) ==
    /\ pc[n] = "started"
    /\ n \notin appending
    /\ sem > 0
    /\ sem' = sem - 1
    /\ pc' = [pc EXCEPT ![n] = "inflight"]
    /\ UNCHANGED <<graph, config, verdict, exec, indeg, ready, outputs,
                   finished_nodes, running, tasks, attempt, events, cancel_event,
                   launches>>
    /\ UNCHANGED result
    /\ EmitWithRunId
    /\ Elsewhere

\* AgentReturn without the output check of line 198
AgentReturnUnchecked(n) ==
    /\ pc[n] = "inflight"
    /\ \E out \in Returns(graph, n, ctx_of[n]) :
          outputs' = [k \in DOMAIN outputs \cup {n} |->
                            IF k = n THEN out ELSE outputs[k]]
    /\ sem' = sem + 1
    /\ finished_nodes' = Finished
    /\ events' = Emit(n, DoneEvt(n, ProgressNow))
    /\ pc' = [pc EXCEPT ![n] = "done_emit"]
    /\ UNCHANGED <<graph, config, verdict, exec, indeg, ready, running, tasks,
                   attempt, cancel_event, launches>>
    /\ UNCHANGED result
    /\ EmitWithRunId
    /\ Elsewhere

\* the agent returned a record that passes the output check: the slot is
\* released, the output recorded, node.done appended
AgentReturn(n) ==
    /\ pc[n] = "inflight"
    /\ \E out \in Returns(graph, n, ctx_of[n]) :
          /\ CheckKeys(out, AgentOf(graph, n).output_schema)
          /\ outputs' = [k \in DOMAIN outputs \cup {n} |->
                            IF k = n THEN out ELSE outputs[k]]
    /\ sem' = sem + 1
    /\ finished_nodes' = Finished
    /\ events' = Emit(n, DoneEvt(n, ProgressNow))
    /\ pc' = [pc EXCEPT ![n] = "done_emit"]
    /\ UNCHANGED <<graph, config, verdict, exec, indeg, ready, running, tasks,
                   attempt, cancel_event, launches>>
    /\ UNCHANGED result
    /\ EmitWithRunId
    /\ Elsewhere

\* the agent raised, timed out, or returned a record that fails the output
\* check: the slot is released and the except branch taken
AgentFail(n) ==
    /\ pc[n] = "inflight"
    /\ \/ AgentOf(graph, n).raises
       \/ \E out \in Returns(graph, n, ctx_of[n]) :
             ~CheckKeys(out, AgentOf(graph, n).output_schema)
    /\ sem' = sem + 1
    /\ IF attempt[n] <= retries
       THEN /\ events' = Emit(n, RetryEvt(n))
            /\ pc' = [pc EXCEPT ![n] = "backoff"]
            /\ UNCHANGED finished_nodes
       ELSE IF NodeOf(graph, n).optional
       THEN /\ finished_nodes' = Finished
            /\ events' = Emit(n, FailOptEvt(n, ProgressNow))
            /\ pc' = [pc EXCEPT ![n] = "failopt_emit"]
       ELSE /\ events' = Emit(n, FailEvt(n))
            /\ pc' = [pc EXCEPT ![n] = "fail_emit"]
            /\ UNCHANGED finished_nodes
    /\ UNCHANGED <<graph, config, verdict, exec, indeg, ready, outputs, running,
                   tasks, attempt, cancel_event, launches>>
    /\ UNCHANGED result
    /\ EmitWithRunId
    /\ ExceptBranch(n)

\* on_event(node.retry) has returned: backoff is passed to asyncio.sleep (line
\* 230; the value was computed at 217-220, before the emit, from the config of
\* that moment, which the runner holds meanwhile)
Sleep(n) ==
    /\ pc[n] = "backoff"
    /\ n \notin appending
    /\ slept' = [slept EXCEPT ![n] = Append(@, backoff[n])]
    /\ pc' = [pc EXCEPT ![n] = "sleeping"]
    /\ UNCHANGED <<graph, config, verdict, exec, indeg, ready, outputs,
                   finished_nodes, sem, running, tasks, attempt, events,
                   cancel_event, launches, result, status, bg, queue, stored,
                   tool_map, agent_map, last_call, ctx_of, retries, backoff, appending, sub,
                   fifo>>

\* append_event(rid, evt) commits the row of the event node n emitted last
\* (main.py 192), and on_event is about to return
AppendEvent(n) ==
    /\ n \in appending
    /\ stored' = [stored EXCEPT ![n] = Append(@, Last(events[n]))]
    /\ appending' = appending \ {n}
    /\ UNCHANGED <<graph, config, verdict, exec, indeg, ready, outputs,
                   finished_nodes, sem, running, tasks, pc, attempt, events,
                   cancel_event, launches, result, status, bg, queue, tool_map,
                   agent_map, last_call, ctx_of, retries, slept, backoff, sub, fifo>>

\* the top of `while True`, reached again after the backoff sleep and, as the
\* optional branch has no break, after node.fail(optional)
NextAttempt(n) ==
    /\ pc[n] \in {"sleeping", "failopt_emit"}
    /\ n \notin appending
    /\ attempt[n] < MaxAttempts
    /\ attempt' = [attempt EXCEPT ![n] = @ + 1]
    /\ events' = Emit(n, StartEvt(n, attempt[n] + 1))
    /\ pc' = [pc EXCEPT ![n] = "started"]
    /\ UNCHANGED <<graph, config, verdict, exec, indeg, ready, outputs,
                   finished_nodes, sem, running, tasks, cancel_event, launches>>
    /\ UNCHANGED result
    /\ EmitWithRunId
    /\ Elsewhere

\* the same step with the attempts unbounded: past MaxAttempts the counter
\* stays at MaxAttempts + 1 and node.start is left out of the record
NextAttemptUnbounded(n) ==
    /\ pc[n] \in {"sleeping", "failopt_emit"}
    /\ n \notin appending
    /\ attempt' = [attempt EXCEPT ![n] = Min(@ + 1, MaxAttempts + 1)]
    /\ events' = IF attempt[n] < MaxAttempts
                 THEN Emit(n, StartEvt(n, attempt[n] + 1))
                 ELSE events
    /\ pc' = [pc EXCEPT ![n] = "started"]
    /\ UNCHANGED <<graph, config, verdict, exec, indeg, ready, outputs,
                   finished_nodes, sem, running, tasks, cancel_event, launches>>
    /\ UNCHANGED result
    /\ EmitWithRunId
    /\ Elsewhere

\* after node.fail was emitted: raise, the task ends with the exception
RunnerRaise(n) ==
    /\ pc[n] = "fail_emit"
    /\ n \notin appending
    /\ pc' = [pc EXCEPT ![n] = "failed"]
    /\ UNCHANGED <<graph, config, verdict, exec, indeg, ready, outputs,
                   finished_nodes, sem, running, tasks, attempt, events,
                   cancel_event, launches>>
    /\ UNCHANGED result
    /\ EmitWithRunId
    /\ Elsewhere

\* after node.done was emitted: break, edge activation, the task returns; a
\* condition that raises ends the task with the exception, the children before
\* it handled
RunnerFinish(n) ==
    /\ pc[n] = "done_emit"
    /\ n \notin appending
    /\ LET a == ActivateEdges(graph, outputs, n,
                              ChildrenBeforeRaise(graph, outputs, n, Children(graph, n)),
                              indeg, ready)
       IN /\ indeg' = a.indeg
          /\ ready' = a.ready
    /\ pc' = [pc EXCEPT ![n] = IF ActivationRaises(graph, outputs, n)
                                THEN "failed" ELSE "finished"]
    /\ UNCHANGED <<graph, config, verdict, exec, outputs, finished_nodes, sem,
                   running, tasks, attempt, events, cancel_event, launches>>
    /\ UNCHANGED result
    /\ EmitWithRunId
    /\ Elsewhere

\* cancel_run: ctrl.cancel_event.set()
Cancel ==
    /\ ~cancel_event
    /\ cancel_event' = TRUE
    /\ UNCHANGED <<graph, config, verdict, exec, indeg, ready, outputs,
                   finished_nodes, sem, running, tasks, pc, attempt, events,
                   launches>>
    /\ UNCHANGED result
    /\ EmitWithRunId
    /\ Elsewhere

Next ==
    \/ ExecuteStart
    \/ CoordinatorWake
    \/ Cancel
    \/ \E n \in Ids : RunnerBegin(n)
    \/ \E n \in Ids : Acquire(n)
    \/ \E n \in Ids : AgentReturn(n)
    \/ \E n \in Ids : AgentFail(n)
    \/ \E n \in Ids : Sleep(n)
    \/ \E n \in Ids : NextAttempt(n)
    \/ \E n \in Ids : AppendEvent(n)
    \/ \E n \in Ids : RunnerRaise(n)
    \/ \E n \in Ids : RunnerFinish(n)

Spec == Init /\ [][Next]_vars

(***************************************************************************)
(* Validation alone, over every graph of at most MaxNodes nodes and        *)
(* MaxEdges edges with ids among three names.                              *)
(***************************************************************************)
SmallIds == {"A", "B", "C"}

SeqsUpTo(S, n) == UNION {[1..k -> S] : k \in 0..n}

SmallGraph(ns, es) ==
    [nodes |-> [i \in DOMAIN ns |-> NodeSpec(ns[i], "agent.text", FALSE)],
     edges |-> [i \in DOMAIN es |-> EdgeSpec(es[i][1], es[i][2], EmptyDict, NoCond)],
     options |-> [max_retries |-> NoOption, concurrency |-> NoOption],
     sinks |-> <<>>]

InitValidate ==
    \E ns \in SeqsUpTo(SmallIds, MaxNodes),
       es \in SeqsUpTo(SmallIds \X SmallIds, MaxEdges) :
        InitRun(SmallGraph(ns, es), ExecutionConfig(0, 1, 1))

\* _validate_graph(graph), called on its own
Validate ==
    /\ verdict = "unset"
    /\ verdict' = ValidateGraph(graph)
    /\ UNCHANGED <<graph, config, exec, indeg, ready, outputs, finished_nodes,
                   sem, running, tasks, pc, attempt, events, cancel_event,
                   launches>>
    /\ UNCHANGED result
    /\ EmitWithRunId
    /\ Elsewhere

SpecValidate == InitValidate /\ [][Validate]_vars

(***************************************************************************)
(* Five independent nodes run with concurrency 2 (scenario 6 of the        *)
(* specification), with no retry or one.                                   *)
(***************************************************************************)
InitFive ==
    \E r \in 0..1 :
        InitRun(GraphSpec(GFive, {}, [max_retries |-> <<r>>, concurrency |-> <<2>>]),
                ExecutionConfig(0, 1, 2))

(***************************************************************************)
(* Runs with an event sink that may raise.  _emit appends the event and    *)
(* then awaits on_event(evt): when that raises, the event is already in    *)
(* the events list.  The emit of node.done is inside run_node's try, so    *)
(* the exception reaches `except Exception` like a failure of the agent    *)
(* (the semaphore is already released); every other emit is outside the    *)
(* try and the exception ends the task.                                    *)
(***************************************************************************)
SinkRaise(n) ==
    /\ n \in appending
    /\ IF pc[n] = "done_emit"
       THEN IF attempt[n] <= retries
            THEN /\ events' = Emit(n, RetryEvt(n))
                 /\ pc' = [pc EXCEPT ![n] = "backoff"]
                 /\ UNCHANGED finished_nodes
            ELSE IF NodeOf(graph, n).optional
            THEN /\ finished_nodes' = Finished
                 /\ events' = Emit(n, FailOptEvt(n, ProgressNow))
                 /\ pc' = [pc EXCEPT ![n] = "failopt_emit"]
            ELSE /\ events' = Emit(n, FailEvt(n))
                 /\ pc' = [pc EXCEPT ![n] = "fail_emit"]
                 /\ UNCHANGED finished_nodes
       ELSE /\ pc[n] \in {"started", "backoff", "failopt_emit", "fail_emit"}
            /\ pc' = [pc EXCEPT ![n] = "failed"]
            /\ UNCHANGED <<events, finished_nodes>>
    /\ UNCHANGED <<graph, config, verdict, exec, indeg, ready, outputs, sem, running,
                   tasks, attempt, cancel_event, launches>>
    /\ UNCHANGED result
    /\ EmitAfterSinkRaise(n)
    /\ IF pc[n] = "done_emit" THEN ExceptBranch(n) ELSE Elsewhere

InitSink ==
    \E shape \in {GSingle, GChain, GSure}, in \in {i \in RunInputs : Relevant(i)} :
        \E opt \in SUBSET {shape.nodes[i][1] : i \in DOMAIN shape.nodes} :
            InitRun(GraphSpec(shape, opt, in.options), in.config)

NextSink ==
    \/ Next
    \/ \E n \in Ids : SinkRaise(n)

SpecSink == InitSink /\ [][NextSink]_vars

\* the graph with the retries field of node nid set
WithRetries(g, nid, r) ==
    [g EXCEPT !.nodes = [i \in DOMAIN g.nodes |->
                            IF g.nodes[i].id = nid
                            THEN [g.nodes[i] EXCEPT !.retries = r]
                            ELSE g.nodes[i]]]

(***************************************************************************)
(* Runs of graphs whose first node may carry its own retries, no node      *)
(* being optional.                                                         *)
(***************************************************************************)
InitNode ==
    \E shape \in {GSingle, GChain},
       r \in 0..MaxRetries,
       nr \in {NoOption} \cup {<<x>> : x \in 0..MaxRetries} :
        InitRun(WithRetries(GraphSpec(shape, {}, [max_retries |-> <<r>>,
                                                  concurrency |-> <<1>>]),
                            "A", nr),
                ExecutionConfig(0, 1, 1))

SpecNode == InitNode /\ [][Next]_vars

\* the node.start events emitted so far, over all nodes
TotalStarts ==
    Cardinality({x \in UNION {{<<n, i>> : i \in DOMAIN events[n]} : n \in Ids} :
                    events[x[1]][x[2]].msg = "node.start"})

\* the client cancels at the moment two node.start events have been emitted
CancelAfterTwoStarts == TotalStarts = 2 /\ Cancel

NextFive ==
    \/ ExecuteStart
    \/ CoordinatorWake
    \/ CancelAfterTwoStarts
    \/ \E n \in Ids : RunnerBegin(n)
    \/ \E n \in Ids : Acquire(n)
    \/ \E n \in Ids : AgentReturn(n)
    \/ \E n \in Ids : AgentFail(n)
    \/ \E n \in Ids : Sleep(n)
    \/ \E n \in Ids : NextAttempt(n)
    \/ \E n \in Ids : AppendEvent(n)
    \/ \E n \in Ids : RunnerRaise(n)
    \/ \E n \in Ids : RunnerFinish(n)

SpecFive == InitFive /\ [][NextFive]_vars

(***************************************************************************)
(* Runs with the attempts unbounded, under the scheduling the engine has:  *)
(* the event loop runs every task that can run (weak fairness of each step *)
(* of the coordinator and of each runner), asyncio.Semaphore wakes its     *)
(* waiters in FIFO order (strong fairness of Acquire), and every agent     *)
(* call returns, raises or times out.  Nothing obliges the client to       *)
(* cancel.                                                                 *)
(***************************************************************************)
LiveShapes == {GSingle, GChain}

LiveInit ==
    \E shape \in LiveShapes, in \in {i \in RunInputs : Relevant(i)} :
        \E opt \in SUBSET {shape.nodes[i][1] : i \in DOMAIN shape.nodes} :
            InitRun(GraphSpec(shape, opt, in.options), in.config)

LiveNext ==
    \/ ExecuteStart
    \/ CoordinatorWake
    \/ Cancel
    \/ \E n \in Ids : RunnerBegin(n)
    \/ \E n \in Ids : Acquire(n)
    \/ \E n \in Ids : AgentReturn(n)
    \/ \E n \in Ids : AgentFail(n)
    \/ \E n \in Ids : Sleep(n)
    \/ \E n \in Ids : NextAttemptUnbounded(n)
    \/ \E n \in Ids : AppendEvent(n)
    \/ \E n \in Ids : RunnerRaise(n)
    \/ \E n \in Ids : RunnerFinish(n)

LiveSpec ==
    /\ LiveInit
    /\ [][LiveNext]_vars
    /\ WF_vars(ExecuteStart)
    /\ WF_vars(CoordinatorWake)
    /\ \A n \in Ids :
          /\ WF_vars(RunnerBegin(n))
          /\ SF_vars(Acquire(n))
          /\ WF_vars(AgentReturn(n) \/ AgentFail(n))
          /\ WF_vars(Sleep(n))
          /\ WF_vars(NextAttemptUnbounded(n))
          /\ WF_vars(AppendEvent(n))
          /\ WF_vars(RunnerRaise(n))
          /\ WF_vars(RunnerFinish(n))

\* the scheduling of LiveSpec
Fairness ==
    /\ WF_vars(ExecuteStart)
    /\ WF_vars(CoordinatorWake)
    /\ \A n \in Ids :
          /\ WF_vars(RunnerBegin(n))
          /\ SF_vars(Acquire(n))
          /\ WF_vars(AgentReturn(n) \/ AgentFail(n))
          /\ WF_vars(Sleep(n))
          /\ WF_vars(NextAttemptUnbounded(n))
          /\ WF_vars(AppendEvent(n))
          /\ WF_vars(RunnerRaise(n))
          /\ WF_vars(RunnerFinish(n))

(***************************************************************************)
(* Runs of the fork A -> B (status == 200), A -> C (status != 200), no     *)
(* node optional, under the same scheduling.                               *)
(***************************************************************************)
InitFork ==
    \E r \in 0..MaxRetries, c \in 1..MaxConcurrency :
        InitRun(GraphSpec(GFork, {}, [max_retries |-> <<r>>, concurrency |-> <<c>>]),
                ExecutionConfig(0, 1, MaxConcurrency))

LiveForkSpec == InitFork /\ [][LiveNext]_vars /\ Fairness

(***************************************************************************)
(* _run_background(run_id, graph, events, ctrl, on_event_func) of main.py:  *)
(* it marks the run RUNNING, calls execute of main.py's executor with the  *)
(* sink it was given, and records how the run ended.  It is called with a  *)
(* GraphSpec, the record RUNS[run_id] in the status PENDING, a RunCtrl     *)
(* and, as its sink, the fan-out emit_with_run_id (put on ctrl.queue, then *)
(* append_event): the arguments create_run builds at lines 183-195.  The   *)
(* graph is an argument of the call and not a graph stored by POST /graphs, *)
(* whose request model raises for every body (validation.py 367), so that  *)
(* create_run itself finds no graph (line 179).  save_run and append_event *)
(* write to the database and may raise.                                    *)
(***************************************************************************)
RunMsg(msg) == [msg |-> msg]

Eof == [eof |-> TRUE]

\* _run_background has been called and has not run yet: RUNS[run_id] is
\* PENDING, ctrl.queue and the events list are empty
InitBackground(g, cfg, s) ==
    /\ InitExecute(g, cfg)
    /\ Constructed
    /\ status = "PENDING"
    /\ bg = "created"
    /\ sub = s

\* _run_background starts: RUNS[run_id]["status"] = "RUNNING", then the await
\* of save_run
RunBackground ==
    /\ bg = "created"
    /\ status' = "RUNNING"
    /\ bg' = "save_running"
    /\ UNCHANGED <<graph, config, verdict, exec, indeg, ready, outputs,
                   finished_nodes, sem, running, tasks, pc, attempt, events,
                   cancel_event, launches, result, queue, stored, tool_map,
                   agent_map, last_call, ctx_of,
                   retries, slept, backoff, appending, sub, fifo>>

\* save_run(RUNNING) returns, and execute is called, or raises: line 202 is
\* outside the try, so the exception ends the task
SaveRunning ==
    /\ bg = "save_running"
    /\ \E ok \in BOOLEAN : bg' = IF ok THEN "executing" ELSE "dead"
    /\ UNCHANGED <<graph, config, verdict, exec, indeg, ready, outputs,
                   finished_nodes, sem, running, tasks, pc, attempt, events,
                   cancel_event, launches, result, status, queue, stored,
                   tool_map, agent_map, last_call, ctx_of,
                   retries, slept, backoff, appending, sub, fifo>>

\* the message put on the queue for the final status
TerminalMsg(st) ==
    CASE st = "SUCCESS" -> RunMsg("run.success")
      [] st = "CANCELLED" -> RunMsg("run.cancelled")
      [] OTHER -> RunMsg("run.failed")

\* the await of save_run for the final status ends.  When it returns, the
\* terminal message and then, in the finally block, eof are put on the queue.
\* When it raises in the try (line 214), `except Exception` takes over: the
\* status becomes FAILED and save_run is awaited again (230-232).  When it
\* raises in an except block the exception leaves the task through finally.
SaveFinal ==
    /\ bg \in {"save_success", "save_handler"}
    /\ \E ok \in BOOLEAN :
          IF ok
          THEN /\ queue' = [queue EXCEPT !["run"] = @ \o <<TerminalMsg(status), Eof>>]
               /\ fifo' = IF sub = "off" THEN fifo ELSE fifo \o <<"run", "run">>
               /\ bg' = "done"
               /\ UNCHANGED status
          ELSE IF bg = "save_success"
          THEN /\ status' = "FAILED"
               /\ bg' = "save_handler"
               /\ UNCHANGED <<queue, fifo>>
          ELSE /\ queue' = [queue EXCEPT !["run"] = Append(@, Eof)]
               /\ fifo' = IF sub = "off" THEN fifo ELSE Append(fifo, "run")
               /\ bg' = "done"
               /\ UNCHANGED status
    /\ UNCHANGED <<graph, config, verdict, exec, indeg, ready, outputs,
                   finished_nodes, sem, running, tasks, pc, attempt, events,
                   cancel_event, launches, result, stored, tool_map, agent_map,
                   last_call, ctx_of, retries, slept, backoff, appending, sub>>

\* A -> C beside the independent node B
GSide == Shape(<<<<"A", "agent.fetch">>, <<"B", "agent.fetch">>, <<"C", "agent.fetch">>>>,
               <<EdgeSpec("A", "C", EmptyDict, NoCond)>>)

\* A -> B where the type of B is not a registered agent
GGhost == Shape(<<<<"A", "agent.fetch">>, <<"B", "agent.ghost">>>>,
                <<EdgeSpec("A", "B", EmptyDict, NoCond)>>)

\* the independent nodes A and B
GPair == Shape(<<<<"A", "agent.fetch">>, <<"B", "agent.fetch">>>>, <<>>)

\* the graphs given to _run_background: their nodes name agents of
\* plugins/agents.py, the only ones the registry of main.py's executor holds
RunShapes == {GFetch, GDemo}

\* the graphs of the runs whose queue a reader empties
StreamShapes == {GDemo, GPair}

\* event_gen starts: a reader of ctrl.queue
Stream ==
    /\ sub = "none"
    /\ sub' = "open"
    /\ UNCHANGED <<graph, config, verdict, exec, indeg, ready, outputs,
                   finished_nodes, sem, running, tasks, pc, attempt, events,
                   cancel_event, launches, result, status, bg, queue, stored,
                   tool_map, agent_map, last_call, ctx_of, retries, slept, backoff,
                   appending, fifo>>

\* evt = await q.get() in event_gen: the oldest entry leaves the queue; after
\* eof the generator ends
StreamGet ==
    /\ sub = "open"
    /\ fifo # <<>>
    /\ LET k == Head(fifo)
       IN /\ queue' = [queue EXCEPT ![k] = Tail(@)]
          /\ sub' = IF Head(queue[k]) = Eof THEN "ended" ELSE "open"
    /\ fifo' = Tail(fifo)
    /\ UNCHANGED <<graph, config, verdict, exec, indeg, ready, outputs,
                   finished_nodes, sem, running, tasks, pc, attempt, events,
                   cancel_event, launches, result, status, bg, stored, tool_map,
                   agent_map, last_call, ctx_of, retries, slept, backoff, appending>>

\* The runs whose queue nobody reads, and the runs whose queue one reader may
\* start to empty at any moment (the pipeline with and without a retry, the
\* pair without)
InitMain ==
    \/ \E shape \in RunShapes, r \in 0..MaxRetries :
          \E opt \in SUBSET {"A"} :
              InitBackground(GraphSpec(shape, opt, [max_retries |-> <<r>>,
                                                    concurrency |-> <<MaxConcurrency>>]),
                             ExecutionConfig(0, 1, MaxConcurrency), "off")
    \/ \E shape \in StreamShapes, r \in 0..MaxRetries :
          /\ shape = GPair => r = 0
          /\ InitBackground(GraphSpec(shape, {}, [max_retries |-> <<r>>,
                                                 concurrency |-> <<MaxConcurrency>>]),
                            ExecutionConfig(0, 1, MaxConcurrency), "none")

NextMain ==
    \/ Next
    \/ \E n \in Ids : SinkRaise(n)
    \/ RunBackground
    \/ SaveRunning
    \/ SaveFinal
    \/ Stream
    \/ StreamGet

SpecMain == InitMain /\ [][NextMain]_vars

(***************************************************************************)
(* execute called on A -> C beside the independent node B, and on A -> B   *)
(* where the type of B is not a registered agent.                          *)
(***************************************************************************)
InitPeers ==
    \E shape \in {GSide, GGhost}, r \in 0..MaxRetries :
        \E opt \in SUBSET {"A"} :
            /\ shape = GSide => opt = {}
            /\ InitRun(GraphSpec(shape, opt, [max_retries |-> <<r>>,
                                              concurrency |-> <<MaxConcurrency>>]),
                       ExecutionConfig(0, 1, MaxConcurrency))

SpecPeers == InitPeers /\ [][Next]_vars

(***************************************************************************)
(* execute called on graphs that name sinks: none, nodes that will or will *)
(* not have an output, an id that is not a node.  The pipeline of          *)
(* tests/test_graph.py is among the graphs, and the three plugins in a     *)
(* row (without optional nodes).                                           *)
(***************************************************************************)
WithSinks(g, sinks) == [g EXCEPT !.sinks = sinks]

SinkLists == {<<>>, <<"A">>, <<"B">>, <<"B", "C">>, <<"C", "B", "B">>, <<"B", "Z">>}

InitSinks ==
    \E shape \in {GChain, GFork, GSure, GDemo, GChart}, sinks \in SinkLists,
       r \in 0..MaxRetries :
        \E opt \in SUBSET {shape.nodes[i][1] : i \in DOMAIN shape.nodes} :
            /\ shape = GChart => (opt = {} /\ sinks \in {<<>>, <<"B", "C">>})
            /\ InitRun(WithSinks(GraphSpec(shape, opt, [max_retries |-> <<r>>,
                                                       concurrency |-> <<MaxConcurrency>>]),
                                 sinks),
                       ExecutionConfig(0, 1, MaxConcurrency))

SpecSinks == InitSinks /\ [][Next]_vars

(***************************************************************************)
(* Runs of A -> B over one edge whose condition and map are drawn from the *)
(* operators, literals and keys below; A's agent returns any record of     *)
(* ValueOutputs, so that the tail of A's run_node applies _eval_cond to    *)
(* every pair of condition and test context.                               *)
(***************************************************************************)
CondOps == {"==", "!=", ">", ">=", "<", "<=", "contains", "=~", AbsentOp}

\* the condition names "v": the map produces it from "x", or produces only "w"
CondMaps == {[v |-> "x"], [w |-> "x"]}

Conds == {NoCond} \cup {Cond(var, op, val) :
                            var \in {"v", ListVar}, op \in CondOps, val \in CondValues}

GCond(map, cond) ==
    Shape(<<<<"A", "agent.values">>, <<"B", "agent.text">>>>,
          <<EdgeSpec("A", "B", map, cond)>>)

InitCond ==
    \E map \in CondMaps, cond \in Conds, r \in 0..MaxRetries :
        InitRun(GraphSpec(GCond(map, cond), {}, [max_retries |-> <<r>>,
                                                 concurrency |-> <<1>>]),
                ExecutionConfig(0, 1, 1))

SpecCond == InitCond /\ [][Next]_vars

(***************************************************************************)
(* Runs of a join: C receives the key k from A and from B, through edges   *)
(* declared in either order, and returns its context; D receives C's k.    *)
(***************************************************************************)
FromA == EdgeSpec("A", "C", [k |-> "status", a |-> "body"], NoCond)
FromB == EdgeSpec("B", "C", [k |-> "body"], NoCond)
ToD == EdgeSpec("C", "D", [k |-> "k"], NoCond)

GMerge(edges) ==
    Shape(<<<<"A", "agent.text">>, <<"B", "agent.sure">>, <<"C", "agent.echo">>,
            <<"D", "agent.echo">>>>, edges)

MergeShapes == {GMerge(<<FromA, FromB, ToD>>), GMerge(<<FromB, FromA, ToD>>),
                GMerge(<<ToD, FromB, FromA>>)}

InitJoin ==
    \E shape \in MergeShapes, r \in 0..MaxRetries, c \in 1..MaxConcurrency :
        InitRun(GraphSpec(shape, {}, [max_retries |-> <<r>>, concurrency |-> <<c>>]),
                ExecutionConfig(0, 1, MaxConcurrency))

SpecJoin == InitJoin /\ [][Next]_vars

(***************************************************************************)
(* Runs of a single node whose agent may fail, under every backoff policy  *)
(* of the sets below and with up to MaxAttempts - 1 retries.               *)
(***************************************************************************)
BackoffFactors == 1..3

MaxDelays == {1, 3, 60}

\* the values update_from_dict gives the fields of config.execution (nothing
\* validates an assignment: max_concurrency may fall below default_concurrency)
Policies ==
    [max_retries : 0..(MaxAttempts - 1), default_concurrency : 1..MaxConcurrency,
     max_concurrency : 1..MaxConcurrency, retry_backoff_factor : BackoffFactors,
     retry_max_delay : MaxDelays]

\* the graph names max_retries or leaves it to the engine
InitBackoff ==
    \E r \in 0..(MaxAttempts - 1), f \in BackoffFactors, m \in MaxDelays,
       opt \in SUBSET {"A"}, o \in {0, 1} :
        InitRun(GraphSpec(GSingle, opt, [max_retries |-> IF o = 1 THEN <<r>> ELSE NoOption,
                                        concurrency |-> <<1>>]),
                [ExecutionConfig(r, 1, 1) EXCEPT !.retry_backoff_factor = f,
                                                !.retry_max_delay = m])

(***************************************************************************)
(* The same runs while the configuration is changed: Executor holds the    *)
(* object get_config() returns, reads max_retries and the concurrency      *)
(* fields once when execute starts and the two backoff fields at every     *)
(* retry, and WandConfig.update_from_dict sets the fields in place.        *)
(***************************************************************************)
\* update_from_dict({"execution": u}): every key of u is set; u is given with
\* all five fields, a dict with fewer keys being the one that repeats the
\* current value of the others
UpdateFromDict(u) ==
    /\ config' = [k \in DOMAIN config |-> u[k]]
    /\ UNCHANGED <<graph, verdict, exec, indeg, ready, outputs, finished_nodes,
                   sem, running, tasks, pc, attempt, events, cancel_event,
                   launches, result, status, bg, queue, stored, tool_map,
                   agent_map, last_call, ctx_of, retries, slept, backoff, appending,
                   sub, fifo>>

NextPolicy ==
    \/ Next
    \/ \E u \in Policies : UpdateFromDict(u)

SpecPolicy == InitBackoff /\ [][NextPolicy]_vars

(***************************************************************************)
(* The registries of core/registry.py on their own: ToolRegistry and       *)
(* AgentRegistry have the same code.  main.py creates both empty, anyone   *)
(* may register handlers, and each Executor built over them runs           *)
(* _bootstrap_plugins.                                                     *)
(***************************************************************************)
\* register with an unconditional self._map[name] = handler
RegisterOverwrites(map, name, h) ==
    [map |-> [k \in DOMAIN map \cup {name} |-> IF k = name THEN h ELSE map[k]],
     exc |-> ""]

\* register(handler): KeyError if the name is in _map, else the name is added
RegisterIn(map, name, h) ==
    IF name \in DOMAIN map
    THEN [map |-> map, exc |-> "KeyError"]
    ELSE [map |-> [k \in DOMAIN map \cup {name} |-> IF k = name THEN h ELSE map[k]],
          exc |-> ""]

\* get(name): KeyError if the name is not in _map
GetFrom(map, name) ==
    IF name \in DOMAIN map
    THEN [value |-> map[name], exc |-> ""]
    ELSE [value |-> "", exc |-> "KeyError"]

\* the loops of _bootstrap_plugins: each built-in that the registry does not
\* have is registered
RECURSIVE BootstrapIn(_, _)
BootstrapIn(map, names) ==
    IF names = <<>> THEN [map |-> map, exc |-> ""]
    ELSE IF Has(map, Head(names)) THEN BootstrapIn(map, Tail(names))
    ELSE LET r == RegisterIn(map, Head(names), "builtin")
         IN IF r.exc # "" THEN r ELSE BootstrapIn(r.map, Tail(names))

BuiltinTools == <<"http_fetcher", "chart_generator">>

BuiltinAgents == <<"agent.fetch", "agent.analyze", "agent.chart">>

Registries == {"tools", "agents"}

RegNames == [tools |-> {"http_fetcher", "tool.x"}, agents |-> {"agent.fetch", "agent.x"}]

Handlers == {"h1", "h2"}

MapOf(reg) == IF reg = "tools" THEN tool_map ELSE agent_map

MapOfNext(reg) == IF reg = "tools" THEN tool_map' ELSE agent_map'

\* no run exists
RunUntouched ==
    UNCHANGED <<graph, config, verdict, exec, indeg, ready, outputs,
                finished_nodes, sem, running, tasks, pc, attempt, events,
                cancel_event, launches, result, status, bg, queue, stored, ctx_of,
                retries, slept, backoff, appending, sub, fifo>>

RegisterCall(reg, name, h) ==
    /\ LET r == RegisterIn(MapOf(reg), name, h)
       IN /\ tool_map' = IF reg = "tools" THEN r.map ELSE tool_map
          /\ agent_map' = IF reg = "agents" THEN r.map ELSE agent_map
          /\ last_call' = [op |-> "register", reg |-> reg, name |-> name,
                           handler |-> h, exc |-> r.exc]
    /\ RunUntouched

Lookup(reg, name) ==
    /\ LET r == GetFrom(MapOf(reg), name)
       IN last_call' = [op |-> "get", reg |-> reg, name |-> name,
                        handler |-> r.value, exc |-> r.exc]
    /\ UNCHANGED <<tool_map, agent_map>>
    /\ RunUntouched

\* Executor(tool_registry, agent_registry): __init__ runs _bootstrap_plugins,
\* the tools first
NewExecutor ==
    /\ LET t == BootstrapIn(tool_map, BuiltinTools)
           a == BootstrapIn(agent_map, BuiltinAgents)
       IN /\ tool_map' = t.map
          /\ agent_map' = IF t.exc = "" THEN a.map ELSE agent_map
          /\ last_call' = [op |-> "bootstrap", reg |-> "", name |-> "", handler |-> "",
                           exc |-> IF t.exc # "" THEN t.exc ELSE a.exc]
    /\ RunUntouched

InitRegistry ==
    /\ InitExecute(SmallGraph(<<>>, <<>>), ExecutionConfig(0, 1, 1))
    /\ status = "NONE"
    /\ bg = "none"
    /\ sub = "off"
    /\ tool_map = EmptyDict
    /\ agent_map = EmptyDict
    /\ last_call = NoCall

NextRegistry ==
    \/ \E reg \in Registries : \E name \in RegNames[reg], h \in Handlers :
          RegisterCall(reg, name, h)
    \/ \E reg \in Registries : \E name \in RegNames[reg] : Lookup(reg, name)
    \/ NewExecutor

SpecRegistry == InitRegistry /\ [][NextRegistry]_vars

(***************************************************************************)
(* Well-formedness of a graph, stated without the algorithm.               *)
(***************************************************************************)
UniqueIds(g) == \A i, j \in DOMAIN g.nodes : g.nodes[i].id = g.nodes[j].id => i = j

EndpointsResolve(g) ==
    \A i \in DOMAIN g.edges :
        g.edges[i].from \in NodeIdSet(g) /\ g.edges[i].to \in NodeIdSet(g)

HasTopologicalOrder(g) ==
    \E rank \in [NodeIdSet(g) -> 1..Len(g.nodes)] :
        \A i \in DOMAIN g.edges : rank[g.edges[i].from] < rank[g.edges[i].to]

WellFormed(g) == UniqueIds(g) /\ EndpointsResolve(g) /\ HasTopologicalOrder(g)

InFlight == {n \in Ids : pc[n] = "inflight"}

RunEnded == exec \in {"success", "failed", "cancelled", "invalid"}

\* the task of node n exists and is not done
RunnerActive(n) == pc[n] \notin {"idle", "finished", "failed", "cancelled"}

(***************************************************************************)
(* Claims.                                                                 *)
(***************************************************************************)

\* C1: in every reachable state the number of agent invocations in flight is
\* at most min(options.concurrency, engine max_concurrency)
C1_ConcurrencyCap ==
    Cardinality(InFlight) <=
        Min(OptGet(graph.options.concurrency, config.default_concurrency),
            config.max_concurrency)

\* C1 witness: the engine maximum (1) is below the graph's concurrency (2), one
\* invocation is in flight and another runner waits for the slot
C1_Witness ==
    /\ graph.options.concurrency = <<2>>
    /\ config.max_concurrency = 1
    /\ Cardinality(InFlight) = 1
    /\ \E n \in Ids : pc[n] = "started"

\* C2 as stated: at most one runner task is ever created for a node, and every
\* node id appears at most once across the ready-set, the running runners and
\* outputs
C2_Original ==
    \A n \in Ids :
        /\ launches[n] <= 1
        /\ SeqCount(ready, n) + (IF RunnerActive(n) THEN 1 ELSE 0)
              + (IF n \in DOMAIN outputs THEN 1 ELSE 0) <= 1

\* C2 amended: at most one runner task is ever created for a node; the node id
\* is at most once in the ready-set, and while it is there it has no runner and
\* no output; a node in outputs has been launched (it may be in outputs while
\* its runner is still running, as the runner records the output itself)
C2_LaunchedOnce ==
    \A n \in Ids :
        /\ launches[n] <= 1
        /\ SeqCount(ready, n) <= 1
        /\ SeqCount(ready, n) = 1 =>
                n \notin running /\ n \notin DOMAIN outputs /\ pc[n] = "idle"
        /\ n \in DOMAIN outputs => launches[n] = 1 /\ n \in running

\* C2 witness: a join node with two parents has been launched, once, after both
\* parents completed
C2_Witness ==
    /\ Cardinality({i \in DOMAIN graph.edges : graph.edges[i].to = "C"}) = 2
    /\ {"A", "B"} \subseteq DOMAIN outputs
    /\ launches["C"] = 1
    /\ pc["C"] = "started"

\* C3: for every node, optional or not, the number of node.start events equals
\* the number of attempts, and the attempts never exceed R + 1
C3_AttemptsBounded ==
    \A n \in Ids :
        /\ EvtCount(events, "node.start", n) = attempt[n]
        /\ attempt[n] <= Retries(graph, config) + 1

\* C3 witness: an optional node run with R = 0 is in its second attempt
C3_Witness ==
    \E n \in NodeIdSet(graph) :
        /\ NodeOf(graph, n).optional
        /\ Retries(graph, config) = 0
        /\ attempt[n] = 2
        /\ pc[n] = "inflight"

\* C4: every run on a valid graph eventually ends (with success, failure or
\* cancellation), a run with an optional node whose agent fails on every
\* attempt included
C4_Termination == WellFormed(graph) => <>RunEnded

\* C4 witness: the runner of an optional node is past attempt MaxAttempts and
\* execute still waits for it
C4_Witness ==
    \E n \in NodeIdSet(graph) :
        /\ NodeOf(graph, n).optional
        /\ attempt[n] > MaxAttempts
        /\ exec = "waiting"

\* (the runs without an optional node do end)
TerminationWithoutOptional ==
    (\A i \in DOMAIN graph.nodes : ~graph.nodes[i].optional) => <>RunEnded

\* C5: once execute has propagated a runner's error as the run result, no
\* other node invokes its agent, writes to outputs or emits an event
C5_PeersStopAfterFailure ==
    [][exec = "failed" =>
          /\ events' = events
          /\ outputs' = outputs
          /\ InFlight' \subseteq InFlight]_vars

\* C5 witness: execute has raised the error of one runner while the agent of
\* another node is in flight
C5_Witness ==
    /\ exec = "failed"
    /\ \E n \in Ids : pc[n] = "failed"
    /\ \E n \in Ids : pc[n] = "inflight"

\* C6: if the cancel flag is set before the run has ended, the run does not end
\* with success and no runner in flight goes on to its node.done
C6_CancelIsTerminal ==
    [][(cancel_event /\ ~RunEnded) =>
          /\ exec' # "success"
          /\ \A n \in Ids : pc[n] = "inflight" => pc'[n] # "done_emit"]_vars

\* C6 witness: the flag is set while every node of the graph is in flight
C6_Witness ==
    /\ cancel_event
    /\ exec = "waiting"
    /\ \A n \in NodeIdSet(graph) : pc[n] = "inflight"

\* C7: five independent nodes, concurrency 2; when the cancel flag is set at
\* the moment two node.start events have been emitted, no further node.start is
\* emitted, no node.done is emitted for the three other nodes, and the run ends
\* as cancelled
C7_CancelAfterTwoStarts ==
    [][(cancel_event /\ ~RunEnded) =>
          /\ TotalStarts' = 2
          /\ \A n \in Ids : events[n] = <<>> => events'[n] = <<>>
          /\ RunEnded' => exec' = "cancelled"]_vars

\* C7 witness: the flag was set after two node.start events and a third one
\* has been emitted
C7_Witness ==
    /\ cancel_event
    /\ Len(graph.nodes) = 5
    /\ TotalStarts = 3

\* C8: a runner that begins while the cancel flag is set ends with the
\* cancellation signal and changes nothing else
C8_CancelledBeforeWork ==
    [][\A n \in Ids :
          (pc[n] = "created" /\ cancel_event /\ pc'[n] # "created") =>
              /\ pc'[n] = "cancelled"
              /\ events' = events
              /\ attempt' = attempt
              /\ sem' = sem
              /\ outputs' = outputs
              /\ indeg' = indeg
              /\ ready' = ready
              /\ finished_nodes' = finished_nodes]_vars

\* C8 witness: a runner launched with the flag set has ended as cancelled, with
\* no event and no attempt
C8_Witness ==
    \E n \in Ids :
        /\ pc[n] = "cancelled"
        /\ cancel_event
        /\ events[n] = <<>>
        /\ attempt[n] = 0

\* C9: validation accepts a graph exactly when its ids are unique, its edge
\* endpoints resolve and a topological order exists, and leaves the graph as
\* it was
C9_ValidatorExact ==
    [][verdict' # verdict =>
          /\ (verdict' = "ok" <=> WellFormed(graph))
          /\ graph' = graph]_vars

\* C9 witness: a graph with two parallel edges A -> B has been accepted
C9_Witness ==
    /\ verdict = "ok"
    /\ \E i, j \in DOMAIN graph.edges :
          i # j /\ graph.edges[i] = graph.edges[j] /\ graph.edges[i].from = "A"
               /\ graph.edges[i].to = "B"

\* C10: execute on a graph that fails validation ends before any event, any
\* runner and any run state
C10_InvalidGraphNoState ==
    ~WellFormed(graph) =>
        /\ exec \in {"init", "invalid"}
        /\ \A n \in Ids : events[n] = <<>> /\ pc[n] = "idle" /\ launches[n] = 0
        /\ DOMAIN indeg = {}
        /\ ready = <<>>
        /\ DOMAIN outputs = {}
        /\ tasks = {} /\ running = {}

\* C10 witness: execute has raised on the cycle A -> B -> C -> A
C10_Witness ==
    /\ exec = "invalid"
    /\ verdict = "Cycle detected in graph (DAG only)"
    /\ Len(graph.edges) = 3

\* R of the node runner as specified: node.retries if set, else the
\* max_retries of the run
EffectiveRetries(n) ==
    IF NodeOf(graph, n).retries # NoOption
    THEN NodeOf(graph, n).retries[1]
    ELSE Retries(graph, config)

\* C11: a node whose retries field is set makes at most node.retries + 1
\* attempts, a node without the field at most max_retries + 1
C11_NodeRetriesBound ==
    \A n \in NodeIdSet(graph) : attempt[n] <= EffectiveRetries(n) + 1

\* C11 witness: a node with retries = 0, in a run with max_retries = 1, is in
\* its second attempt
C11_Witness ==
    /\ NodeOf(graph, "A").retries = <<0>>
    /\ Retries(graph, config) = 1
    /\ attempt["A"] = 2
    /\ pc["A"] = "inflight"

\* edge i leaves a node whose runner has returned, and the edge's own
\* condition holds of that node's output projected through the edge's own map
EdgeSatisfied(i) ==
    LET e == graph.edges[i]
    IN /\ pc[e.from] = "finished"
       /\ e.from \in DOMAIN outputs
       /\ EvalCond(e.cond, Project(outputs[e.from], e.map))

\* C12: activation is independent per edge: the in-degree of a node is its
\* initial in-degree less the number of its incoming edges that are satisfied,
\* parallel edges counted one by one, and a node with an in-degree above zero
\* has not been launched
C12_PerEdgeActivation ==
    \A c \in DOMAIN indeg :
        /\ indeg[c] = InitialIndeg(graph)[c]
                        - Cardinality({i \in DOMAIN graph.edges :
                                          graph.edges[i].to = c /\ EdgeSatisfied(i)})
        /\ launches[c] >= 1 =>
              \A i \in DOMAIN graph.edges : graph.edges[i].to = c => EdgeSatisfied(i)

\* C12 witness: B has two edges from A, A has returned status 200, which
\* satisfies the first edge (== 200) and not the second (> 200), and B's
\* in-degree is 0
C12_Witness ==
    /\ Len(graph.edges) = 2
    /\ graph.edges[1].to = "B" /\ graph.edges[2].to = "B"
    /\ pc["A"] = "finished"
    /\ EdgeSatisfied(1) /\ ~EdgeSatisfied(2)
    /\ indeg["B"] = 0

\* C14: a node that has been launched, and so every node in outputs, has all
\* its incoming edges satisfied: each comes from a node that had finished and
\* has a condition that evaluated to true
C14_UpstreamComplete ==
    \A n \in NodeIdSet(graph) :
        (launches[n] >= 1 \/ n \in DOMAIN outputs) =>
            \A i \in DOMAIN graph.edges : graph.edges[i].to = n => EdgeSatisfied(i)

\* C14 witness: B is in outputs and one of its incoming edges is not satisfied
C14_Witness ==
    /\ "B" \in DOMAIN outputs
    /\ \E i \in DOMAIN graph.edges : graph.edges[i].to = "B" /\ ~EdgeSatisfied(i)

\* edges i and j leave the same node for two targets, project the same
\* variable and carry the conditions == v and != v
Complementary(i, j) ==
    LET a == graph.edges[i]
        b == graph.edges[j]
    IN /\ a.from = b.from /\ a.to # b.to /\ a.map = b.map
       /\ a.cond # NoCond /\ b.cond # NoCond
       /\ a.cond.var = b.cond.var /\ a.cond.value = b.cond.value
       /\ a.cond.op = "==" /\ b.cond.op = "!="

\* node t was never started: no task, no attempt, no event, no output
Skipped(t) ==
    /\ launches[t] = 0 /\ pc[t] = "idle" /\ attempt[t] = 0
    /\ events[t] = <<>> /\ t \notin DOMAIN outputs

C13_Skip ==
    \A i, j \in DOMAIN graph.edges :
        Complementary(i, j) =>
            /\ launches[graph.edges[i].to] + launches[graph.edges[j].to] <= 1
            /\ pc[graph.edges[i].from] = "finished" =>
                  /\ EdgeSatisfied(i) # EdgeSatisfied(j)
                  /\ ~EdgeSatisfied(i) => Skipped(graph.edges[i].to)
                  /\ ~EdgeSatisfied(j) => Skipped(graph.edges[j].to)
            /\ finished_nodes = Cardinality(DOMAIN outputs)

\* C13: with edges A -> B and A -> C under complementary conditions, once A has
\* completed the target whose condition is true is launched, the other target
\* is never started, emits no event, is absent from outputs and is not counted
\* in the finished nodes, and the run ends with success unless a runner fails
\* or the run is cancelled
C13_ConditionalSkip ==
    /\ []C13_Skip
    /\ \A i \in 1..(MaxEdges + 1) :
          (i \in DOMAIN graph.edges /\ EdgeSatisfied(i))
              ~> (i \in DOMAIN graph.edges /\ launches[graph.edges[i].to] = 1)
    /\ <>(exec = "success" \/ cancel_event \/ \E n \in Ids : pc[n] = "failed")

\* C13 witness: A returned status 200, B has run and is in outputs, C was
\* skipped, and the run has ended with success
C13_Witness ==
    /\ exec = "success"
    /\ outputs["A"].status = IntVal(200)
    /\ "B" \in DOMAIN outputs
    /\ Skipped("C")
    /\ finished_nodes = 2

\* C15: outputs[n] is written once, before any outgoing edge of n is
\* activated, and is never overwritten afterwards, also when the event sink
\* raises while node.done is emitted
C15_OutputWrittenOnce ==
    [][\A n \in Ids :
          /\ AgentReturn(n) => n \notin DOMAIN outputs
          /\ RunnerFinish(n) => n \in DOMAIN outputs
          /\ n \in DOMAIN outputs =>
                n \in DOMAIN outputs' /\ outputs'[n] = outputs[n]]_vars

\* C15 witness: the sink raised on node.done of a node that has its output and
\* a retry left, and the agent of that node is invoked again
C15_Witness ==
    \E n \in Ids :
        /\ n \in DOMAIN outputs
        /\ EvtCount(events, "node.done", n) = 1
        /\ attempt[n] = 2
        /\ pc[n] = "inflight"

\* C17: when the event sink raises on a lifecycle event of a node, the runner
\* of that node ends with the error: the failure is neither retried nor
\* absorbed
C17_SinkErrorIsFatal ==
    [][\A n \in Ids : SinkRaise(n) => pc'[n] = "failed"]_vars

\* C17 witness: the sink raised on node.done of an optional node without
\* retries, node.fail(optional) follows node.done and the runner goes on
C17_Witness ==
    \E n \in NodeIdSet(graph) :
        /\ NodeOf(graph, n).optional
        /\ EvtCount(events, "node.done", n) = 1
        /\ EvtCount(events, "node.fail(optional)", n) = 1
        /\ Last(events[n]).msg = "node.fail(optional)"
        /\ attempt[n] = 1
        /\ pc[n] = "failopt_emit"

\* C16: once node.fail(optional) has been emitted for a node, its agent is
\* not invoked again, no further event is emitted for it, it never enters
\* outputs and its runner never activates its outgoing edges (so no node
\* reachable only through it is started)
C16_AbsorptionIsFinal ==
    [][\A n \in Ids :
          EvtCount(events, "node.fail(optional)", n) >= 1 =>
              /\ events'[n] = events[n]
              /\ attempt'[n] = attempt[n]
              /\ pc'[n] \notin {"inflight", "done_emit", "finished"}
              /\ n \notin DOMAIN outputs']_vars

\* C16 witness: after node.fail(optional) for A, a later attempt of A has
\* succeeded and B, reachable only through A, has been started
C16_Witness ==
    /\ EvtCount(events, "node.fail(optional)", "A") >= 1
    /\ "A" \in DOMAIN outputs
    /\ Children(graph, "A") = <<"B">>
    /\ pc["B"] = "started"

\* the agent of node n requires a tool that the Tool Registry lacks
MissingTool(n) == \E t \in AgentOf(graph, n).required_tools : ~Has(tool_map, t)

\* C18: a node whose agent requires a missing tool never has its agent
\* invoked; when the node is optional its runner does not end with an error
\* and the run does not fail, when it is not optional the run does not succeed
C18_MissingToolAbsorbed ==
    \A n \in NodeIdSet(graph) :
        MissingTool(n) =>
            /\ attempt[n] = 0 /\ pc[n] # "inflight"
            /\ NodeOf(graph, n).optional => pc[n] # "failed" /\ exec # "failed"
            /\ ~NodeOf(graph, n).optional => exec # "success"

\* C18 witness: the run has failed on an optional node whose agent requires a
\* missing tool, without any event for that node
C18_Witness ==
    \E n \in NodeIdSet(graph) :
        /\ MissingTool(n)
        /\ NodeOf(graph, n).optional
        /\ pc[n] = "failed"
        /\ events[n] = <<>>
        /\ exec = "failed"

\* the tools of node n's agent are present and the context assembled from the
\* current outputs lacks a key of the agent's input_schema
InputViolation(n) == Preflight(graph, outputs, n) = "input missing keys"

\* C19: an input contract violation goes through the retry loop: the step of
\* the runner that finds it emits node.start for attempt 1 and goes on to the
\* attempt, and a runner that ended with an error, its tools being present,
\* emitted a terminal node.fail and its node is not optional
C19_InputViolationRetried ==
    /\ [][\A n \in Ids :
             (pc[n] = "created" /\ ~cancel_event /\ InputViolation(n)
                  /\ pc'[n] # "created") =>
                 /\ pc'[n] = "started"
                 /\ attempt'[n] = 1
                 /\ EvtCount(events', "node.start", n) = 1]_vars
    /\ [](\A n \in NodeIdSet(graph) :
             (~MissingTool(n) /\ pc[n] = "failed") =>
                 /\ EvtCount(events, "node.fail", n) >= 1
                 /\ ~NodeOf(graph, n).optional)

\* C19 witness: the run has failed on an optional node whose context lacks an
\* input key, with no attempt made and no event for that node
C19_Witness ==
    \E n \in NodeIdSet(graph) :
        /\ InputViolation(n)
        /\ NodeOf(graph, n).optional
        /\ pc[n] = "failed"
        /\ attempt[n] = 0
        /\ events[n] = <<>>
        /\ exec = "failed"

\* C20: every record in outputs contains all keys of the output_schema of its
\* node's agent: a result that lacks one is a failed attempt and is not recorded
C20_OutputsMeetSchema ==
    \A n \in DOMAIN outputs :
        CheckKeys(outputs[n], AgentOf(graph, n).output_schema)

\* C20 witness: a node whose agent never raises but may return a record
\* without "body" was retried after such a record and then recorded a result
C20_Witness ==
    \E n \in DOMAIN outputs :
        /\ NodeOf(graph, n).type = "agent.partial"
        /\ EvtCount(events, "node.retry", n) >= 1
        /\ outputs[n] = OkOutput

\* the events that end a node: node.done, node.fail, node.fail(optional)
Terminal(evt) == evt.msg \in {"node.done", "node.fail", "node.fail(optional)"}

\* a prefix of  start (retry | start)* (done | fail | fail_optional)
LifecyclePrefix(s) ==
    /\ s # <<>> => s[1].msg = "node.start"
    /\ \A i \in DOMAIN s :
          /\ (s[i].msg = "node.retry" /\ i < Len(s)) => s[i + 1].msg = "node.start"
          /\ Terminal(s[i]) => i = Len(s)

\* C21: the events of every node are a prefix of
\* start (retry | start)* (done | fail | fail_optional): node.start comes first,
\* node.start follows every node.retry, and nothing follows a terminal event
C21_NodeLifecycle == \A n \in Ids : LifecyclePrefix(events[n])

\* C21 witness: a node.start was emitted for a node after its
\* node.fail(optional)
C21_Witness ==
    \E n \in Ids : \E i \in DOMAIN events[n] :
        /\ events[n][i].msg = "node.fail(optional)"
        /\ i < Len(events[n])
        /\ events[n][i + 1].msg = "node.start"

\* C22: retry accounting of a non-optional node with budget R.  Once it has
\* succeeded on attempt k+1 (k <= R) it has emitted k+1 node.start, k
\* node.retry, one node.done and no node.fail; once all its attempts have failed
\* it has emitted R+1 node.start, R node.retry, one node.fail and no node.done,
\* the exception is the one of attempt R+1, and the run does not succeed
C22_RetryAccounting ==
    \A n \in Ids :
        (verdict = "ok" /\ n \in NodeIdSet(graph) /\ ~NodeOf(graph, n).optional) =>
            LET R == Retries(graph, config)
            IN /\ n \in DOMAIN outputs =>
                     /\ attempt[n] <= R + 1
                     /\ EvtCount(events, "node.start", n) = attempt[n]
                     /\ EvtCount(events, "node.retry", n) = attempt[n] - 1
                     /\ EvtCount(events, "node.done", n) = 1
                     /\ EvtCount(events, "node.fail", n) = 0
               /\ (pc[n] \in {"fail_emit", "failed"} /\ events[n] # <<>>) =>
                     /\ attempt[n] = R + 1
                     /\ EvtCount(events, "node.start", n) = R + 1
                     /\ EvtCount(events, "node.retry", n) = R
                     /\ EvtCount(events, "node.fail", n) = 1
                     /\ EvtCount(events, "node.done", n) = 0
                     /\ exec # "success"

\* C22 witness: a non-optional node whose agent returned on its first call has
\* two node.done events, after a retry caused by the event sink
C22_Witness ==
    \E n \in NodeIdSet(graph) :
        /\ ~NodeOf(graph, n).optional
        /\ EvtCount(events, "node.done", n) = 2
        /\ EvtCount(events, "node.retry", n) = 1
        /\ events[n][2].msg = "node.done"

\* the ids graph.sinks names
SinkIds == {graph.sinks[i] : i \in DOMAIN graph.sinks}

\* C23: when execute has returned, the outputs of its result are, if graph.sinks
\* is not empty, exactly the entries of outputs for the sink ids present in
\* outputs, a sink for which node.fail(optional) was emitted being absent, and
\* otherwise the whole outputs mapping
C23_ResultAssembly ==
    exec = "success" =>
        IF graph.sinks # <<>>
        THEN /\ DOMAIN result.outputs = SinkIds \cap DOMAIN outputs
             /\ \A s \in DOMAIN result.outputs : result.outputs[s] = outputs[s]
             /\ \A s \in SinkIds \cap Ids :
                   EvtCount(events, "node.fail(optional)", s) >= 1 =>
                       s \notin DOMAIN result.outputs
        ELSE result.outputs = outputs

\* C23 witness: the run has ended with a result that holds the output of sink
\* B, for which node.fail(optional) was emitted, and not the output of A
C23_Witness ==
    /\ exec = "success"
    /\ graph.sinks = <<"B", "C">>
    /\ EvtCount(events, "node.fail(optional)", "B") >= 1
    /\ DOMAIN outputs = {"A", "B"}
    /\ DOMAIN result.outputs = {"B"}

\* node.fail(optional) was emitted for node n
OptionalFailed(n) == EvtCount(events, "node.fail(optional)", n) >= 1

\* C24: when a run has ended, outputs has at most as many entries as the graph
\* has nodes; when it has ended successfully it has as many exactly if no node
\* was skipped and none optional-failed, and every node absent from outputs was
\* skipped or optional-failed
C24_OutputsCount ==
    LET N == NodeIdSet(graph)
    IN /\ exec \in {"success", "failed", "cancelled"} =>
             Cardinality(DOMAIN outputs) <= Len(graph.nodes)
       /\ exec = "success" =>
             /\ Cardinality(DOMAIN outputs) = Len(graph.nodes)
                    <=> \A n \in N : launches[n] > 0 /\ ~OptionalFailed(n)
             /\ \A n \in N \ DOMAIN outputs : launches[n] = 0 \/ OptionalFailed(n)

\* C24 witness: a run has ended successfully with every node in outputs, one of
\* them after its node.fail(optional)
C24_Witness ==
    /\ exec = "success"
    /\ DOMAIN outputs = NodeIdSet(graph)
    /\ \E n \in NodeIdSet(graph) : OptionalFailed(n) /\ NodeOf(graph, n).optional

\* the moves of the run status the specification allows
StatusStep(s, t) ==
    \/ s = "PENDING" /\ t = "RUNNING"
    \/ s = "RUNNING" /\ t \in {"SUCCESS", "FAILED", "CANCELLED"}

EventsOf(q) == SelectSeq(q, LAMBDA m : m # Eof)

C27_CancelWins ==
    [][(/\ exec = "waiting"
        /\ exec' # "waiting"
        /\ \E d \in tasks : pc[d] = "cancelled") => exec' = "cancelled"]_vars

\* C27 witness: the coordinator is about to wake up with two completed runners,
\* B that failed and C that found the cancel flag set when it started
C27_Witness ==
    /\ exec = "waiting"
    /\ {"B", "C"} \subseteq tasks
    /\ pc["A"] = "finished"
    /\ pc["B"] = "failed"
    /\ pc["C"] = "cancelled"

\* some node of the graph names a type that the Agent Registry lacks
UnknownAgent == \E i \in DOMAIN graph.nodes : graph.nodes[i].type \notin DOMAIN agent_map

\* C28: in a run of a graph that names an unregistered agent no node is
\* launched, no agent invoked and no node event emitted, and the run does not
\* succeed
C28_UnknownAgentAtStart ==
    UnknownAgent =>
        /\ \A n \in Ids : launches[n] = 0 /\ attempt[n] = 0 /\ events[n] = <<>>
        /\ exec # "success"

\* C28 witness: the run has failed on B, whose agent is not registered, after
\* the upstream node A ran to its node.done
C28_Witness ==
    /\ UnknownAgent
    /\ NodeOf(graph, "B").type \notin DOMAIN agent_map
    /\ "A" \in DOMAIN outputs
    /\ EvtCount(events, "node.done", "A") = 1
    /\ pc["B"] = "failed"
    /\ events["B"] = <<>>
    /\ exec = "failed"

\* C29: registration is one-shot in both registries.  No step removes an entry
\* or changes the handler of a name; register of a present name raises
\* KeyError and leaves both registries as they were; register of an absent
\* name adds exactly that name with that handler, after which has(name) is
\* true; get raises KeyError exactly for the names that are not registered and
\* otherwise returns the registered handler; constructing an Executor over
\* registries in any state does not raise.
C29_OneShot ==
    [][ /\ \A reg \in Registries : \A n \in DOMAIN MapOf(reg) :
             /\ Has(MapOfNext(reg), n)
             /\ MapOfNext(reg)[n] = MapOf(reg)[n]
        /\ \A reg \in Registries : \A name \in RegNames[reg], h \in Handlers :
             RegisterCall(reg, name, h) =>
                IF Has(MapOf(reg), name)
                THEN /\ last_call'.exc = "KeyError"
                     /\ UNCHANGED <<tool_map, agent_map>>
                ELSE /\ last_call'.exc = ""
                     /\ DOMAIN MapOfNext(reg) = DOMAIN MapOf(reg) \cup {name}
                     /\ MapOfNext(reg)[name] = h
        /\ \A reg \in Registries : \A name \in RegNames[reg] :
             Lookup(reg, name) =>
                /\ (last_call'.exc = "KeyError") <=> ~Has(MapOf(reg), name)
                /\ Has(MapOf(reg), name) =>
                      last_call'.exc = "" /\ last_call'.handler = MapOf(reg)[name]
        /\ NewExecutor => last_call'.exc = ""
      ]_vars

\* C29 witness: "http_fetcher" was registered with h1, an Executor was built
\* over the registries, and a later register of "http_fetcher" with h2 raised:
\* the name still maps to h1
C29_Witness ==
    /\ last_call = [op |-> "register", reg |-> "tools", name |-> "http_fetcher",
                    handler |-> "h2", exc |-> "KeyError"]
    /\ Has(tool_map, "chart_generator")
    /\ Has(agent_map, "agent.fetch")
    /\ tool_map["http_fetcher"] = "h1"

\* every agent of the graph returns the same record on every call and never
\* raises or times out
AllSucceed == \A n \in NodeIdSet(graph) : NodeOf(graph, n).type = "agent.sure"

\* C30: retries are inert on success.  In a graph whose agents all succeed on
\* their first attempt, whatever max_retries is, each node's events are a
\* prefix of node.start (attempt 1), node.done; no node.retry is emitted, no
\* backoff delay is taken, the agent is invoked at most once, and the node's
\* output is the record the agent returns
C30_RetriesInert ==
    (verdict = "ok" /\ AllSucceed) =>
        \A n \in NodeIdSet(graph) :
            /\ Len(events[n]) <= 2
            /\ Len(events[n]) >= 1 => events[n][1] = StartEvt(n, 1)
            /\ Len(events[n]) >= 2 => events[n][2].msg = "node.done"
            /\ EvtCount(events, "node.retry", n) = 0
            /\ pc[n] \notin {"backoff", "sleeping"}
            /\ attempt[n] <= 1
            /\ n \in DOMAIN outputs => outputs[n] = OkOutput

\* C30 witness: with max_retries = 1, a node of a graph whose agents all
\* succeed has emitted node.start, node.done, node.retry, node.start, node.done
\* and its agent was invoked twice
C30_Witness ==
    /\ verdict = "ok"
    /\ AllSucceed
    /\ Retries(graph, config) = 1
    /\ \E n \in NodeIdSet(graph) :
          /\ attempt[n] = 2
          /\ Len(events[n]) = 5
          /\ events[n][2].msg = "node.done"
          /\ events[n][3].msg = "node.retry"
          /\ events[n][5].msg = "node.done"

\* no attempt of a node has failed so far
NoAttemptFailed ==
    \A n \in NodeIdSet(graph) :
        /\ pc[n] # "failed"
        /\ EvtCount(events, "node.retry", n) = 0
        /\ EvtCount(events, "node.fail", n) = 0
        /\ EvtCount(events, "node.fail(optional)", n) = 0

\* the graph is the linear pipeline A -> B and its agents have succeeded so far
Pipeline ==
    /\ verdict = "ok"
    /\ NoAttemptFailed
    /\ NodeIdSeq(graph) = <<"A", "B">>
    /\ Len(graph.edges) = 1
    /\ graph.edges[1].from = "A"
    /\ graph.edges[1].to = "B"

\* C31: in the linear pipeline A -> B whose agents succeed, B emits nothing
\* before A's node.done; the events of A are a prefix of node.start (attempt
\* 1), node.done (progress 50) and those of B a prefix of node.start (attempt
\* 1), node.done (progress 100); a run that succeeds has all four, and with
\* sinks = [B] its result holds B's output and not A's
C31_LinearPipeline ==
    Pipeline =>
        LET evA == <<StartEvt("A", 1), DoneEvt("A", 50)>>
            evB == <<StartEvt("B", 1), DoneEvt("B", 100)>>
        IN /\ Len(events["A"]) <= 2
           /\ events["A"] = SubSeq(evA, 1, Len(events["A"]))
           /\ Len(events["B"]) <= 2
           /\ events["B"] = SubSeq(evB, 1, Len(events["B"]))
           /\ events["B"] # <<>> => events["A"] = evA
           /\ exec = "success" =>
                 /\ events["A"] = evA
                 /\ events["B"] = evB
                 /\ graph.sinks = <<"B">> =>
                       result = [outputs |-> [n \in {"B"} |-> outputs["B"]],
                                 sinks |-> <<"B">>]

\* C31 witness: the pipeline fetch -> analyze with sinks = [B] has ended with
\* success, all four events emitted and A's output in outputs
C31_Witness ==
    /\ Pipeline
    /\ NodeOf(graph, "A").type = "agent.fetch"
    /\ NodeOf(graph, "B").type = "agent.analyze"
    /\ graph.sinks = <<"B">>
    /\ exec = "success"
    /\ "A" \in DOMAIN outputs
    /\ "A" \notin DOMAIN result.outputs
    /\ events["B"][2] = DoneEvt("B", 100)

\* the variable of e's condition is missing from the test context projected
\* from src: the map does not produce it, or src lacks the mapped key
MissingVar(e, src) ==
    /\ e.cond # NoCond
    /\ \/ e.cond.var \notin DOMAIN e.map
       \/ e.map[e.cond.var] \notin DOMAIN src

\* e is the only edge from its source to its target
OnlyEdge(e) ==
    Cardinality({j \in DOMAIN graph.edges :
                    graph.edges[j].from = e.from /\ graph.edges[j].to = e.to}) = 1

\* C32: a condition whose variable is missing from the edge's test context is
\* false whatever its operator and literal are, and the edge is not activated:
\* once the source has its output, the target keeps its in-degree and is never
\* launched through this edge
C32_MissingVarIsFalse ==
    \A i \in DOMAIN graph.edges :
        LET e == graph.edges[i]
        IN (/\ verdict = "ok"
            /\ e.from \in DOMAIN outputs
            /\ OnlyEdge(e)
            /\ MissingVar(e, outputs[e.from])) =>
                /\ CondRaises(e.cond) \/ ~EvalCond(e.cond, Project(outputs[e.from], e.map))
                /\ indeg[e.to] >= 1
                /\ launches[e.to] = 0

\* C32 witness: the source returned a record without the mapped key, the
\* condition is v != 1, and the target was launched
C32_Witness ==
    /\ verdict = "ok"
    /\ Len(graph.edges) = 1
    /\ graph.edges[1].cond = Cond("v", "!=", IntVal(1))
    /\ graph.edges[1].map = [v |-> "x"]
    /\ "A" \in DOMAIN outputs
    /\ "x" \notin DOMAIN outputs["A"]
    /\ launches["B"] = 1

OrderingOps == {"<", "<=", ">", ">="}

\* the value the condition of e compares with its literal
LeftOf(e, src) == Get(Project(src, e.map), e.cond.var)

\* C33: <, <=, >, >= are numeric comparisons.  When the projected value or
\* the literal of an edge's condition is not a number, the condition is false
\* and the edge is not activated
C33_OrderingIsNumeric ==
    \A i \in DOMAIN graph.edges :
        LET e == graph.edges[i]
        IN (/\ verdict = "ok"
            /\ e.from \in DOMAIN outputs
            /\ OnlyEdge(e)
            /\ e.cond # NoCond
            /\ ~CondRaises(e.cond)
            /\ e.cond.op \in OrderingOps
            /\ \/ LeftOf(e, outputs[e.from]).t # "int"
               \/ e.cond.value.t # "int") =>
                /\ ~EvalCond(e.cond, Project(outputs[e.from], e.map))
                /\ indeg[e.to] >= 1
                /\ launches[e.to] = 0

\* C33 witness: the projected value is the string <<1>>, the condition is
\* v < <<1, 2>> with a string literal, and the target was launched
C33_Witness ==
    /\ verdict = "ok"
    /\ Len(graph.edges) = 1
    /\ graph.edges[1].cond = Cond("v", "<", StrVal(<<1, 2>>))
    /\ graph.edges[1].map = [v |-> "x"]
    /\ "A" \in DOMAIN outputs
    /\ outputs["A"] = [x |-> StrVal(<<1>>)]
    /\ launches["B"] = 1

KnownOps == {"==", "!=", ">", ">=", "<", "<=", "contains"}

\* C34: evaluating a condition never produces a run-level error.  A node that
\* has recorded its output does not end with an exception; an edge whose
\* operator is unrecognized or absent is not activated, nor is a contains edge
\* whose left value is neither a string nor a list; an edge without a condition
\* is activated as soon as its source has finished
C34_CondNeverRaises ==
    \A i \in DOMAIN graph.edges :
        LET e == graph.edges[i]
        IN (verdict = "ok" /\ e.from \in DOMAIN outputs /\ OnlyEdge(e)) =>
              /\ pc[e.from] # "failed"
              /\ exec # "failed" \/ pc[e.to] = "failed"
              /\ (e.cond # NoCond /\ e.cond.op \notin KnownOps) => launches[e.to] = 0
              /\ (/\ e.cond # NoCond
                  /\ e.cond.op = "contains"
                  /\ LeftOf(e, outputs[e.from]).t \notin {"str", "list"}) =>
                      launches[e.to] = 0
              /\ (e.cond = NoCond /\ pc[e.from] = "finished") =>
                      indeg[e.to] = InitialIndeg(graph)[e.to] - 1

\* C34 witness: the condition's var is a list; the source recorded its output
\* and emitted node.done, its task ended with the TypeError of ctx.get, and
\* execute raised it
C34_Witness ==
    /\ verdict = "ok"
    /\ Len(graph.edges) = 1
    /\ graph.edges[1].cond = Cond(ListVar, "==", IntVal(1))
    /\ "A" \in DOMAIN outputs
    /\ Last(events["A"]).msg = "node.done"
    /\ pc["A"] = "failed"
    /\ launches["B"] = 0
    /\ exec = "failed"

\* the incoming edges of n, and those of them whose map writes the key k
Incoming(g, n) == {i \in DOMAIN g.edges : g.edges[i].to = n}
Writers(g, n, k) == {i \in Incoming(g, n) : k \in DOMAIN g.edges[i].map}

\* the context in which each key has the value of the last edge, in the
\* declaration order of graph.edges, that writes it
LastWins(g, outs, n) ==
    [k \in UNION {DOMAIN g.edges[i].map : i \in Incoming(g, n)} |->
        LET last == CHOOSE i \in Writers(g, n, k) : \A j \in Writers(g, n, k) : j <= i
        IN Get(outs[g.edges[last].from], g.edges[last].map[k])]

\* C35: context assembly does not depend on scheduling.  A node that has
\* started has every source of its incoming edges in outputs and its context
\* holds, for each key, the value of the last edge in declaration order that
\* writes it; when the run has succeeded every node has its output, which is
\* the record its agent returns: the outputs are a function of the graph
C35_ContextDeterministic ==
    verdict = "ok" =>
        /\ \A n \in NodeIdSet(graph) :
              events[n] # <<>> =>
                  /\ \A i \in Incoming(graph, n) : graph.edges[i].from \in DOMAIN outputs
                  /\ ctx_of[n] = LastWins(graph, outputs, n)
        /\ exec = "success" =>
              /\ DOMAIN outputs = NodeIdSet(graph)
              /\ \A n \in NodeIdSet(graph) :
                    outputs[n] = IF NodeOf(graph, n).type = "agent.echo"
                                 THEN LastWins(graph, outputs, n)
                                 ELSE OkOutput

\* C35 witness: B's edge is declared after A's and B completed before A (its
\* node.done carries progress 25, A's 50); the run succeeded and C's k is the
\* value of B's edge, passed on to D
C35_Witness ==
    /\ verdict = "ok"
    /\ graph.edges = <<FromA, FromB, ToD>>
    /\ exec = "success"
    /\ Last(events["B"]) = DoneEvt("B", 25)
    /\ Last(events["A"]) = DoneEvt("A", 50)
    /\ outputs["C"] = [k |-> OkOutput.body, a |-> OkOutput.body]
    /\ outputs["D"] = [k |-> OkOutput.body]

InReady(n) == \E i \in DOMAIN ready : ready[i] = n

\* the nodes whose in-degree a step changes
Decremented == {c \in DOMAIN indeg : c \in DOMAIN indeg' /\ indeg'[c] # indeg[c]}

\* C36: once indeg is built, indeg[n] >= 0 for every node, and indeg[n] = 0
\* exactly when n is in the ready list or has been launched.  A step that
\* changes an in-degree or extends the ready list is the tail of the run_node
\* of one node: it lowers in-degrees of children of that node only, and puts
\* in ready exactly the children that reach 0, after what ready held
C36_IndegReady ==
    /\ [](\A n \in DOMAIN indeg :
            /\ indeg[n] >= 0
            /\ indeg[n] = 0 <=> (InReady(n) \/ launches[n] >= 1))
    /\ [][(indeg # EmptyDict /\ (indeg' # indeg \/ Len(ready') > Len(ready))) =>
            \E n \in NodeIdSet(graph) :
                /\ pc[n] = "done_emit"
                /\ pc'[n] \in {"finished", "failed"}
                /\ \A m \in Ids \ {n} : pc'[m] = pc[m]
                /\ \A c \in Decremented :
                      /\ \E i \in DOMAIN graph.edges :
                            graph.edges[i].from = n /\ graph.edges[i].to = c
                      /\ indeg'[c] < indeg[c]
                /\ Len(ready') >= Len(ready)
                /\ SubSeq(ready', 1, Len(ready)) = ready
                /\ \A c \in DOMAIN indeg :
                      (\E i \in (Len(ready) + 1)..Len(ready') : ready'[i] = c)
                          <=> (c \in Decremented /\ indeg'[c] = 0)
       ]_vars

\* C36 witness: in the join A, B -> C both parents have finished, C has
\* in-degree 0 and is in the ready list, not yet launched
C36_Witness ==
    /\ verdict = "ok"
    /\ DOMAIN indeg = {"A", "B", "C"}
    /\ Cardinality(Incoming(graph, "C")) = 2
    /\ pc["A"] = "finished"
    /\ pc["B"] = "finished"
    /\ indeg["C"] = 0
    /\ ready = <<"C">>
    /\ launches["C"] = 0

\* C37: a runner holds a concurrency slot only while its agent invocation is in
\* flight.  Once the semaphore is built, the free slots plus the invocations in
\* flight equal the effective concurrency, whatever the other runners are doing
\* (assembling context, sleeping in backoff, activating edges); a runner in
\* backoff leaves a slot to a runner that waits for one when nothing is in
\* flight; and when execute has returned or raised all slots are free
C37_SlotOnlyInFlight ==
    (verdict = "ok" /\ exec # "init") =>
        /\ sem >= 0
        /\ sem + Cardinality(InFlight) = Concurrency(graph, config)
        /\ (InFlight = {} /\ \E n \in Ids : pc[n] \in {"backoff", "sleeping"}) => sem >= 1
        /\ exec \in {"success", "failed", "cancelled"} =>
              sem = Concurrency(graph, config)

\* C37 witness: execute has raised the error of a failed node while the agent
\* of another node is still in flight and holds a slot
C37_Witness ==
    /\ verdict = "ok"
    /\ exec = "failed"
    /\ \E n \in Ids : pc[n] = "failed"
    /\ InFlight # {}
    /\ sem < Concurrency(graph, config)

\* the delays of the default policy (2, 2, 60)
DefaultDelays == <<2, 4, 8, 16, 32, 60, 60>>

\* C38: the delay before attempt k+1 (k >= 1) is min(base * factor^(k-1),
\* max_delay) with base = factor.  The k-th delay a runner sleeps has that
\* value, at most max_delay, for the policy in force when attempt k failed;
\* every attempt after the first is preceded by its delay: a runner that has
\* made j attempts has slept j - 1 times, or j times while it sleeps after the
\* j-th, so that no delay is taken before the first attempt nor after the last; the
\* default policy gives 2, 4, 8, 16, 32, 60, 60
C38_BackoffDelays ==
    /\ [](verdict = "ok" =>
            /\ \A n \in NodeIdSet(graph) :
                  Len(slept[n]) = IF pc[n] = "sleeping" THEN attempt[n]
                                  ELSE Max(attempt[n] - 1, 0)
            /\ \A k \in DOMAIN DefaultDelays :
                  Backoff(ExecutionConfig(0, 1, 1), k) = DefaultDelays[k])
    /\ [][\A n \in NodeIdSet(graph) :
            /\ backoff'[n] # backoff[n] =>
                  backoff'[n] = Min(config.retry_backoff_factor
                                      * Pow(config.retry_backoff_factor, attempt[n] - 1),
                                    config.retry_max_delay)
            /\ backoff'[n] # backoff[n] => backoff'[n] <= config.retry_max_delay
            /\ slept'[n] # slept[n] => slept'[n] = Append(slept[n], backoff[n])
       ]_vars

\* C38 witness: an optional node with max_retries = 0 has started attempt 2
\* right after node.fail(optional), without any delay
C38_Witness ==
    /\ verdict = "ok"
    /\ retries = 0
    /\ NodeOf(graph, "A").optional
    /\ attempt["A"] = 2
    /\ slept["A"] = <<>>
    /\ Len(events["A"]) = 3
    /\ events["A"][2].msg = "node.fail(optional)"
    /\ events["A"][3] = StartEvt("A", 2)

\* how many times node nid has been counted into finished_nodes: its node.done
\* and node.fail(optional) events (lines 201-202 and 234-235)
Contributions(evs, nid) ==
    EvtCount(evs, "node.done", nid) + EvtCount(evs, "node.fail(optional)", nid)

\* the events of node nid that carry a progress value
WithProgress(evs, nid) ==
    {i \in DOMAIN evs[nid] : "progress" \in DOMAIN evs[nid][i]}

\* C39: the finished count is at most the number of nodes and each node is
\* counted at most once (by its node.done or its node.fail(optional)); every
\* progress value of an event is an integer in 0..100 equal to
\* round(100 * finished / total_nodes) for the count at its emission, and
\* the values do not decrease in emission order (the count never decreases)
C39_ProgressBounded ==
    /\ [](verdict = "ok" =>
            /\ finished_nodes <= Len(graph.nodes)
            /\ \A n \in NodeIdSet(graph) :
                  /\ Contributions(events, n) <= 1
                  /\ \A i \in WithProgress(events, n) :
                        events[n][i].progress \in 0..100)
    /\ [][(verdict = "ok" /\ verdict' = "ok" /\ exec # "init") =>
            /\ finished_nodes' >= finished_nodes
            /\ \A n \in NodeIdSet(graph) :
                  \A i \in WithProgress(events', n) \ WithProgress(events, n) :
                     /\ finished_nodes' = finished_nodes + 1
                     /\ events'[n][i].progress =
                            PyRound(100 * finished_nodes', Len(graph.nodes))]_vars

\* C39 witness: the only node of the graph, an optional one, has been counted
\* twice (node.fail(optional), then the node.fail(optional) or node.done of the
\* next attempt): a finished count of 2 for one node and an event with
\* progress 200
C39_Witness ==
    /\ verdict = "ok"
    /\ Len(graph.nodes) = 1
    /\ NodeOf(graph, "A").optional
    /\ finished_nodes = 2
    /\ Contributions(events, "A") = 2
    /\ \E i \in WithProgress(events, "A") : events["A"][i].progress = 200

\* the terminal messages _run_background puts on the queue (lines 215, 221,
\* 227, 233)
RunMsgs == {TerminalMsg(st) : st \in {"SUCCESS", "CANCELLED", "FAILED"}}

\* a step puts an entry on the queue of the run
QueuePut == \E k \in DOMAIN queue : Len(queue'[k]) > Len(queue[k])

====
